---- MODULE Spec2Model ----
(***************************************************************************)
(* Goal tree resolution and goal state evaluation of the glosses CMS:      *)
(* the gloss store, the goal classifier, Standard Parts Recursion, the     *)
(* goal state evaluator, the tree builder and its consumers (workspace     *)
(* tree, batch-fix lists, batch exporter).                                 *)
(*                                                                         *)
(* A reference "lang:slug" is the record [lang |-> .., slug |-> ..]; its   *)
(* language part is kept as written (it may carry upper case or blanks),   *)
(* so that normalisation is something the model computes.                  *)
(***************************************************************************)
EXTENDS Integers, Sequences, FiniteSets, TLC

VARIABLES store, dirs, files, view, result, lastOp, ops, proposalList, showModal, held,
          output

vars == <<store, dirs, files, view, result, lastOp, ops, proposalList, showModal, held, output>>

-----------------------------------------------------------------------------
(* Bounds *)

MaxOps == 1

-----------------------------------------------------------------------------
(* Language codes and references *)

Languages == {"eng", "deu", "spa"}

RawLanguages == Languages \cup {"ENG "}

\* a comparison of the codes as written
normalizeLanguageCodeVerbatim(code) == code

\* (code || '').trim().toLowerCase()
normalizeLanguageCode(code) ==
    CASE code = "ENG " -> "eng"
      [] OTHER -> code

NoLanguage == "null"

Slugs == {"sit", "a", "b", "x", "y", "z", "w", "q"}

Ref(lang, slug) == [lang |-> lang, slug |-> slug]

AllRefs == {Ref(l, s) : l \in RawLanguages, s \in Slugs}

\* The glosses the bounded store may hold: language directory and file name.
Keys == {Ref(l, s) : l \in Languages, s \in Slugs}

Null == [null |-> TRUE]

-----------------------------------------------------------------------------
(* Log markers *)

SPLIT_LOG_MARKER == "SPLIT_CONSIDERED_UNNECESSARY"
TRANSLATION_IMPOSSIBLE_MARKER == "TRANSLATION_CONSIDERED_IMPOSSIBLE"
USAGE_IMPOSSIBLE_MARKER == "USAGE_EXAMPLE_CONSIDERED_IMPOSSIBLE"

MarkerFor(marker, lang) == marker \o ":" \o lang

\* String.prototype.startsWith
includesAtStart(val, marker) ==
    Len(marker) <= Len(val) /\ SubSeq(val, 1, Len(marker)) = marker

\* String.prototype.includes
includes(val, marker) ==
    \E i \in 1..(Len(val) + 1) :
        /\ i + Len(marker) <= Len(val) + 1
        /\ SubSeq(val, i, i + Len(marker) - 1) = marker

LogValues ==
    {SPLIT_LOG_MARKER, "checked: SPLIT_CONSIDERED_UNNECESSARY (ai)"}
        \cup {MarkerFor(TRANSLATION_IMPOSSIBLE_MARKER, l) : l \in {"eng", "deu"}}
        \cup {MarkerFor(USAGE_IMPOSSIBLE_MARKER, l) : l \in {"eng", "deu"}}

Markers ==
    {SPLIT_LOG_MARKER}
        \cup {MarkerFor(TRANSLATION_IMPOSSIBLE_MARKER, l) : l \in Languages}
        \cup {MarkerFor(USAGE_IMPOSSIBLE_MARKER, l) : l \in Languages}

\* includes, tabulated over the log values and markers of the bounded model
IncludesTable == [val \in LogValues, marker \in Markers |-> includes(val, marker)]

\* a marker matched against the whole log value
hasLogExact(gloss, marker) == marker \in gloss.logs

hasLog(gloss, marker) == \E val \in gloss.logs : IncludesTable[val, marker]

-----------------------------------------------------------------------------
(* Gloss files and the file store *)

TAG_SITUATION == "eng:situation"
TAG_PARAPHRASE == "eng:paraphrase"
TAG_PROCEDURAL == "eng:procedural-paraphrase-expression-goal"
TAG_UNDERSTAND == "eng:understand-expression-goal"

\* A gloss file as written by toDict: every field but the slug.
GlossFile(tags, parts, translations, usage_examples, children, logs) ==
    [tags |-> tags, parts |-> parts, translations |-> translations,
     usage_examples |-> usage_examples, children |-> children,
     has_similar_meaning |-> <<>>, logs |-> logs,
     needsHumanCheck |-> FALSE, excludeFromLearning |-> FALSE]

EmptyGloss == GlossFile({}, <<>>, <<>>, <<>>, <<>>, {})

\* fromDict(data, slug, language): language and slug come from the path
loadGloss(st, language, slug) ==
    LET key == Ref(normalizeLanguageCode(language), slug)
    IN  IF key \in DOMAIN st
        THEN [language |-> key.lang, slug |-> slug] @@ st[key]
        ELSE Null

resolveReference(st, ref) == loadGloss(st, ref.lang, ref.slug)

\* The storage handed to the evaluator and the tree builder: resolveReference
FileStorage(st) == [ref \in AllRefs |-> resolveReference(st, ref)]

glossRef(gloss) == Ref(gloss.language, gloss.slug)

Range(seq) == {seq[i] : i \in 1..Len(seq)}

SelectResolved(storage, refs) ==
    LET keep(ref) == storage[ref] # Null
        RECURSIVE go(_)
        go(i) == IF i > Len(refs) THEN <<>>
                 ELSE (IF keep(refs[i]) THEN <<storage[refs[i]]>> ELSE <<>>) \o go(i + 1)
    IN  go(1)

usageExamples(storage, g) == SelectResolved(storage, g.usage_examples)

\* parts left unresolved
partsUnresolved(storage, g) == <<>>

parts(storage, g) == SelectResolved(storage, g.parts)

-----------------------------------------------------------------------------
(* Goal classifier *)

KindNull == "null"

detectGoalType(gloss, nativeLanguage, targetLanguage) ==
    LET lang == normalizeLanguageCode(gloss.language)
        native == normalizeLanguageCode(nativeLanguage)
        target == normalizeLanguageCode(targetLanguage)
    IN  IF lang = native /\ TAG_PROCEDURAL \in gloss.tags THEN "procedural"
        ELSE IF lang = target /\ TAG_UNDERSTAND \in gloss.tags THEN "understanding"
        ELSE KindNull

-----------------------------------------------------------------------------
(* Standard Parts Recursion *)

\* translations resolved without the paraphrase filter
resolvedTranslationsAnyTag(storage, g, lang, requireNonParaphrase) ==
    LET refs == g.translations
        keep(ref) == normalizeLanguageCode(ref.lang) = lang /\ storage[ref] # Null
        RECURSIVE go(_)
        go(i) == IF i > Len(refs) THEN <<>>
                 ELSE (IF keep(refs[i]) THEN <<storage[refs[i]]>> ELSE <<>>) \o go(i + 1)
    IN  go(1)

resolvedTranslations(storage, g, lang, requireNonParaphrase) ==
    LET refs == g.translations
        keep(ref) ==
            /\ normalizeLanguageCode(ref.lang) = lang
            /\ storage[ref] # Null
            /\ ~(requireNonParaphrase /\ TAG_PARAPHRASE \in storage[ref].tags)
        RECURSIVE go(_)
        go(i) == IF i > Len(refs) THEN <<>>
                 ELSE (IF keep(refs[i]) THEN <<storage[refs[i]]>> ELSE <<>>) \o go(i + 1)
    IN  go(1)

PartsCheckResult(ok, missingTranslations, missingParts, missingUsage) ==
    [ok |-> ok, missingTranslations |-> missingTranslations,
     missingParts |-> missingParts, missingUsage |-> missingUsage]

\* the usage examples of a target-language gloss that lack a native translation
UsageMissingTranslations(storage, gloss, native) ==
    LET us == usageExamples(storage, gloss)
        RECURSIVE go(_)
        go(i) ==
            IF i > Len(us) THEN <<>>
            ELSE (IF /\ Len(resolvedTranslations(storage, us[i], native, FALSE)) = 0
                     /\ ~hasLog(us[i], MarkerFor(TRANSLATION_IMPOSSIBLE_MARKER, native))
                  THEN <<glossRef(us[i])>> ELSE <<>>) \o go(i + 1)
    IN  go(1)

RECURSIVE standardPartsCheck(_, _, _, _, _, _)
standardPartsCheck(storage, gloss, native, target, path, skipUsageForRoot) ==
    LET ref == glossRef(gloss)
    IN  IF ref \in path
        THEN PartsCheckResult(TRUE, <<>>, <<>>, <<>>)
        ELSE
        LET nextPath == path \cup {ref}
            lang == normalizeLanguageCode(gloss.language)
            counterpart == IF lang = target THEN native
                           ELSE IF lang = native THEN target ELSE NoLanguage
            hasParts == Len(gloss.parts) > 0 \/ hasLog(gloss, SPLIT_LOG_MARKER)
            translationMissing ==
                /\ counterpart # NoLanguage
                /\ Len(resolvedTranslations(storage, gloss, counterpart, lang = native)) = 0
                /\ ~hasLog(gloss, MarkerFor(TRANSLATION_IMPOSSIBLE_MARKER, counterpart))
            shouldCheckUsage == lang = target /\ ~skipUsageForRoot
            hasUsage == \/ Len(gloss.usage_examples) > 0
                        \/ hasLog(gloss, MarkerFor(USAGE_IMPOSSIBLE_MARKER, target))
            usageTrans == IF shouldCheckUsage
                          THEN UsageMissingTranslations(storage, gloss, native)
                          ELSE <<>>
            own == PartsCheckResult(
                       /\ hasParts
                       /\ ~translationMissing
                       /\ ~(shouldCheckUsage /\ ~hasUsage)
                       /\ Len(usageTrans) = 0,
                       (IF translationMissing THEN <<ref>> ELSE <<>>) \o usageTrans,
                       IF hasParts THEN <<>> ELSE <<ref>>,
                       IF shouldCheckUsage /\ ~hasUsage THEN <<ref>> ELSE <<>>)
            ps == parts(storage, gloss)
            RECURSIVE recurse(_, _)
            recurse(i, res) ==
                IF i > Len(ps) THEN res
                ELSE LET child == standardPartsCheck(storage, ps[i], native, target,
                                                     nextPath, FALSE)
                     IN  recurse(i + 1, PartsCheckResult(
                             res.ok /\ child.ok,
                             res.missingTranslations \o child.missingTranslations,
                             res.missingParts \o child.missingParts,
                             res.missingUsage \o child.missingUsage))
        IN  recurse(1, own)

-----------------------------------------------------------------------------
(* Goal state evaluator *)

RefString(ref) == ref.lang \o ":" \o ref.slug

\* [...new Set(items)]: first occurrences, in order
Dedupe(items) ==
    LET RECURSIVE go(_, _)
        go(i, acc) == IF i > Len(items) THEN acc
                      ELSE go(i + 1, IF items[i] \in Range(acc) THEN acc
                                     ELSE Append(acc, items[i]))
    IN  go(1, <<>>)

MissingLines(missing) == [i \in 1..Len(missing) |-> "  missing: " \o RefString(missing[i])]

\* check(desc, passed, missing): the lines it pushes
\* a requirement logged as passed whatever its outcome
checkAlwaysPassed(desc, passed, missing) == <<"- [x] " \o desc>>

check(desc, passed, missing) ==
    <<(IF passed THEN "- [x] " ELSE "- [ ] ") \o desc>>
        \o (IF ~passed THEN MissingLines(missing) ELSE <<>>)

BranchMissing(branch) ==
    branch.missingParts \o branch.missingTranslations \o branch.missingUsage

evaluateGoalState(gloss, storage, nativeLanguage, targetLanguage) ==
    LET native == normalizeLanguageCode(nativeLanguage)
        target == normalizeLanguageCode(targetLanguage)
        goalLang == normalizeLanguageCode(gloss.language)
        goalKind == detectGoalType(gloss, native, target)
        goalRef == glossRef(gloss)
        header == << "goal=" \o RefString(goalRef),
                     "kind=" \o (IF goalKind = KindNull THEN "unknown" ELSE goalKind),
                     "native=" \o native,
                     "target=" \o target,
                     "requirements:" >>
        \* understanding
        uLang == goalLang = target
        goalNativeTrans == resolvedTranslations(storage, gloss, native, FALSE)
        uT1 == \/ Len(goalNativeTrans) > 0
               \/ hasLog(gloss, MarkerFor(TRANSLATION_IMPOSSIBLE_MARKER, native))
        partsCheck == standardPartsCheck(storage, gloss, native, target, {}, TRUE)
        uLines ==
            check("goal expression is in target language", uLang, <<goalRef>>)
            \o check("goal has translation into native (or logged impossible)", uT1,
                     IF Len(goalNativeTrans) < 1 THEN <<goalRef>> ELSE <<>>)
            \o check("goal and its parts satisfy standard parts recursion (parts + translations + usage-on-target)",
                     partsCheck.ok,
                     Dedupe(partsCheck.missingParts \o partsCheck.missingTranslations
                                \o partsCheck.missingUsage))
        \* procedural
        pLang == goalLang = native
        pTag == TAG_PARAPHRASE \in gloss.tags
        goalTargetTransGlosses == resolvedTranslations(storage, gloss, target, TRUE)
        pT1 == \/ Len(goalTargetTransGlosses) > 0
               \/ hasLog(gloss, MarkerFor(TRANSLATION_IMPOSSIBLE_MARKER, target))
        cPartsChecked == Len(gloss.parts) > 0 \/ hasLog(gloss, SPLIT_LOG_MARKER)
        branches == [i \in 1..Len(goalTargetTransGlosses) |->
                        standardPartsCheck(storage, goalTargetTransGlosses[i],
                                           native, target, {}, FALSE)]
        translationBranchesOk == \A i \in 1..Len(branches) : branches[i].ok
        RECURSIVE branchMissing(_)
        branchMissing(i) == IF i > Len(branches) THEN <<>>
                            ELSE BranchMissing(branches[i]) \o branchMissing(i + 1)
        rootBranch == IF Len(gloss.parts) > 0
                      THEN standardPartsCheck(storage, gloss, native, target, {}, FALSE)
                      ELSE PartsCheckResult(TRUE, <<>>, <<>>, <<>>)
        rootPartsOk == rootBranch.ok
        missing == branchMissing(1) \o BranchMissing(rootBranch)
        branchesOk == translationBranchesOk /\ rootPartsOk
        pLines ==
            check("goal expression is in native language", pLang, <<goalRef>>)
            \o check("goal tagged eng:paraphrase", pTag, <<goalRef>>)
            \o check("goal has translation into target (non-paraphrase) or logged impossible",
                     pT1, IF Len(goalTargetTransGlosses) < 1 THEN <<goalRef>> ELSE <<>>)
            \o check("goal checked for parts (has parts or logged unsplittable)",
                     cPartsChecked, IF cPartsChecked THEN <<>> ELSE <<goalRef>>)
            \o check("translations and any root parts satisfy standard parts recursion",
                     branchesOk, IF branchesOk THEN <<>> ELSE Dedupe(missing))
        nLines ==
            check("goal matches expected kind for native/target languages", FALSE, <<goalRef>>)
        yellowOk ==
            IF goalKind = "understanding" THEN uLang /\ uT1 /\ partsCheck.ok
            ELSE IF goalKind = "procedural"
                 THEN pLang /\ pTag /\ pT1 /\ cPartsChecked /\ branchesOk
            ELSE FALSE
        state == IF yellowOk THEN "yellow" ELSE "red"
        lines == IF goalKind = "understanding" THEN uLines
                 ELSE IF goalKind = "procedural" THEN pLines ELSE nLines
    IN  [state |-> state, log |-> header \o lines \o <<"state=" \o state>>]

determineGoalState(gloss, storage, nativeLanguage, targetLanguage) ==
    evaluateGoalState(gloss, storage, nativeLanguage, targetLanguage).state

-----------------------------------------------------------------------------
(* Tree builder *)

glossKey(gl) == Ref(gl.language, gl.slug)

translationExists(storage, gl, lang, requireNonParaphrase) ==
    \E i \in 1..Len(gl.translations) :
        LET ref == gl.translations[i]
        IN  /\ normalizeLanguageCode(ref.lang) = lang
            /\ \/ ~requireNonParaphrase
               \/ /\ storage[ref] # Null
                  /\ TAG_PARAPHRASE \notin storage[ref].tags

MissingSets == [native_missing |-> {}, target_missing |-> {},
                parts_missing |-> {}, usage_missing |-> {}]

EmptyStats ==
    [situation_glosses |-> {}, glosses_to_learn |-> {},
     native_missing |-> {}, target_missing |-> {},
     parts_missing |-> {}, usage_missing |-> {},
     goal_missing_by_root |-> <<>>]

\* ensureGoalStats(goalRef), as the map after the call
ensureGoalStats(byRoot, goalRef) ==
    IF goalRef \in DOMAIN byRoot THEN byRoot
    ELSE [r \in DOMAIN byRoot \cup {goalRef} |->
            IF r = goalRef THEN MissingSets ELSE byRoot[r]]

MissingField(kind) ==
    CASE kind = "native" -> "native_missing"
      [] kind = "target" -> "target_missing"
      [] kind = "parts" -> "parts_missing"
      [] kind = "usage" -> "usage_missing"

recordMissing(stats, kind, key, goalRef) ==
    LET field == MissingField(kind)
        byRoot == ensureGoalStats(stats.goal_missing_by_root, goalRef)
    IN  [stats EXCEPT ![field] = @ \cup {key},
                      !.goal_missing_by_root =
                          [byRoot EXCEPT ![goalRef][field] = @ \cup {key}]]

Options(checkTranslationTo, requireNonParaphrase, checkParts, checkUsage) ==
    [checkTranslationTo |-> checkTranslationTo,
     requireNonParaphrase |-> requireNonParaphrase,
     checkParts |-> checkParts, checkUsage |-> checkUsage]

NoOptions == Options(NoLanguage, FALSE, FALSE, FALSE)

Context(storage, native, target) ==
    [storage |-> storage, native |-> native, target |-> target]

\* const val = ...; the rest of the block reads val
With(val, Body(_)) == Body(val)

\* recordMissing for each of kinds, in order
RECURSIVE recordMissingAll(_, _, _, _)
recordMissingAll(stats, kinds, key, goalRef) ==
    IF kinds = <<>> THEN stats
    ELSE recordMissingAll(recordMissing(stats, Head(kinds), key, goalRef),
                          Tail(kinds), key, goalRef)

\* what computeWarnings returns, read off the stats it has updated
WarningFlags(stats, key) ==
    [stats |-> stats,
     warn_native_missing |-> key \in stats.native_missing,
     warn_target_missing |-> key \in stats.target_missing,
     warn_usage_missing |-> key \in stats.usage_missing,
     warn_parts_missing |-> key \in stats.parts_missing]

\* computeWarnings: the stats after the call and the four flags it returns
computeWarnings(ctx, stats, gl, goalRootRef, options) ==
    LET key == glossKey(gl)
        partsMissing ==
            /\ options.checkParts
            /\ Len(gl.parts) = 0
            /\ ~hasLog(gl, SPLIT_LOG_MARKER)
        desiredLang == normalizeLanguageCode(options.checkTranslationTo)
        missingTranslation ==
            /\ options.checkTranslationTo # NoLanguage
            /\ ~translationExists(ctx.storage, gl, desiredLang, options.requireNonParaphrase)
            /\ ~hasLog(gl, MarkerFor(TRANSLATION_IMPOSSIBLE_MARKER, desiredLang))
        translationKind ==
            IF ~missingTranslation THEN <<>>
            ELSE IF desiredLang = ctx.native THEN <<"native">>
            ELSE IF desiredLang = ctx.target THEN <<"target">>
            ELSE <<>>
        usageMissing ==
            /\ options.checkUsage
            /\ normalizeLanguageCode(gl.language) = ctx.target
            /\ Len(gl.usage_examples) = 0
            /\ ~hasLog(gl, MarkerFor(USAGE_IMPOSSIBLE_MARKER, ctx.target))
        kinds == (IF partsMissing THEN <<"parts">> ELSE <<>>)
                     \o translationKind
                     \o (IF usageMissing THEN <<"usage">> ELSE <<>>)
    IN  WarningFlags(
            recordMissingAll([stats EXCEPT !.situation_glosses = @ \cup {key}],
                             kinds, key, goalRootRef),
            key)

\* every gloss of the parts line counted, whatever its language
addLearnableAnyLanguage(ctx, stats, gl, learnLang, partsLine) ==
    IF partsLine
    THEN [stats EXCEPT !.glosses_to_learn = @ \cup {glossKey(gl)}]
    ELSE stats

addLearnable(ctx, stats, gl, learnLang, partsLine) ==
    IF partsLine /\ normalizeLanguageCode(gl.language) = normalizeLanguageCode(learnLang)
    THEN [stats EXCEPT !.glosses_to_learn = @ \cup {glossKey(gl)}]
    ELSE stats

TreeNode(gl, marker, bold, role, warnings, state, goal_type, parentRef, viaField) ==
    [gloss |-> glossKey(gl), children |-> <<>>, marker |-> marker, bold |-> bold,
     role |-> role,
     warn_native_missing |-> warnings.warn_native_missing,
     warn_target_missing |-> warnings.warn_target_missing,
     warn_usage_missing |-> warnings.warn_usage_missing,
     warn_parts_missing |-> warnings.warn_parts_missing,
     state |-> state, goal_type |-> goal_type,
     parentRef |-> parentRef, viaField |-> viaField]

Built(nodes, stats) == [nodes |-> nodes, stats |-> stats]

\* a node attached with a copy of itself below its children
AttachNested(acc, node, children, stats) ==
    Built(Append(acc.nodes, [node EXCEPT !.children = Append(children, node)]), stats)

\* a node with its children attached, appended to the nodes built so far
Attach(acc, node, children, stats) ==
    Built(Append(acc.nodes, [node EXCEPT !.children = children]), stats)

buildTranslationNodes(ctx, stats, gl, otherLang, path, goalRootRef, parentRef, nonParaphrase) ==
    LET refs == gl.translations
        RECURSIVE loop(_, _)
        loop(i, acc) ==
            IF i > Len(refs) THEN acc
            ELSE LET ref == refs[i]
                     tGloss == ctx.storage[ref]
                 IN  IF \/ normalizeLanguageCode(ref.lang) # otherLang
                        \/ tGloss = Null
                        \/ (nonParaphrase /\ TAG_PARAPHRASE \in tGloss.tags)
                     THEN loop(i + 1, acc)
                     ELSE loop(i + 1,
                            With(computeWarnings(ctx, acc.stats, tGloss, goalRootRef, NoOptions),
                                 LAMBDA w :
                                   Attach(acc,
                                          TreeNode(tGloss, "", FALSE, "translation", w, "",
                                                   "", parentRef, "translations"),
                                          <<>>, w.stats)))
    IN  loop(1, Built(<<>>, stats))

\* buildUsageNode: the node is the single element of the result's nodes
buildUsageNode(ctx, stats, uGloss, path, goalRootRef, parentRef) ==
    LET uLang == normalizeLanguageCode(uGloss.language)
        counterpart == IF uLang = ctx.target THEN ctx.native
                       ELSE IF uLang = ctx.native THEN ctx.target ELSE NoLanguage
    IN  With(computeWarnings(ctx, stats, uGloss, goalRootRef,
                             Options(counterpart, uLang = ctx.native, FALSE, FALSE)),
             LAMBDA w :
               With(IF glossKey(uGloss) \in path \/ counterpart = NoLanguage
                    THEN Built(<<>>, w.stats)
                    ELSE buildTranslationNodes(ctx, w.stats, uGloss, counterpart,
                                               path \cup {glossKey(uGloss)}, goalRootRef,
                                               glossKey(uGloss), uLang = ctx.native),
                    LAMBDA t :
                      Attach(Built(<<>>, stats),
                             TreeNode(uGloss, "USG ", FALSE, "usage", w, "", "", parentRef,
                                      "usage_examples"),
                             t.nodes, t.stats)))

\* the usage nodes of gl.usage_examples, in order
buildUsageNodes(ctx, stats, gl, path, goalRootRef) ==
    LET refs == gl.usage_examples
        RECURSIVE loop(_, _)
        loop(i, acc) ==
            IF i > Len(refs) THEN acc
            ELSE LET uGloss == ctx.storage[refs[i]]
                 IN  IF uGloss = Null THEN loop(i + 1, acc)
                     ELSE loop(i + 1,
                            With(buildUsageNode(ctx, acc.stats, uGloss, path, goalRootRef,
                                                glossKey(gl)),
                                 LAMBDA u : Built(acc.nodes \o u.nodes, u.stats)))
    IN  loop(1, Built(<<>>, stats))

RECURSIVE buildPartsNodes(_, _, _, _, _, _, _, _)
buildPartsNodes(ctx, stats, gl, path, goalRootRef, learnLang, partsLine, skipUsageForNode) ==
    LET refs == gl.parts
        RECURSIVE loop(_, _)
        loop(i, acc) ==
            IF i > Len(refs) THEN acc
            ELSE
            LET partGloss == ctx.storage[refs[i]]
            IN  IF partGloss = Null THEN loop(i + 1, acc)
                ELSE
                LET lang == normalizeLanguageCode(partGloss.language)
                    counterpart == IF lang = ctx.target THEN ctx.native
                                   ELSE IF lang = ctx.native THEN ctx.target
                                   ELSE NoLanguage
                    partKey == glossKey(partGloss)
                    nextPath == path \cup {partKey}
                    expand == partKey \notin path
                IN  loop(i + 1,
                      With(computeWarnings(ctx, acc.stats, partGloss, goalRootRef,
                               Options(counterpart, lang = ctx.native, TRUE,
                                       ~skipUsageForNode /\ lang = ctx.target)),
                      LAMBDA w :
                      With(addLearnable(ctx, w.stats, partGloss, learnLang, partsLine),
                      LAMBDA s1 :
                      With(IF expand /\ counterpart # NoLanguage
                           THEN buildTranslationNodes(ctx, s1, partGloss, counterpart,
                                    nextPath, goalRootRef, partKey, lang = ctx.native)
                           ELSE Built(<<>>, s1),
                      LAMBDA t :
                      With(IF expand /\ ~skipUsageForNode /\ lang = ctx.target
                           THEN buildUsageNodes(ctx, t.stats, partGloss, nextPath,
                                                goalRootRef)
                           ELSE Built(<<>>, t.stats),
                      LAMBDA u :
                      With(IF expand
                           THEN buildPartsNodes(ctx, u.stats, partGloss, nextPath,
                                                goalRootRef, learnLang, partsLine, FALSE)
                           ELSE Built(<<>>, u.stats),
                      LAMBDA p :
                        Attach(acc,
                               TreeNode(partGloss, "",
                                        partsLine /\ lang = normalizeLanguageCode(learnLang),
                                        "part", w, "", "", glossKey(gl), "parts"),
                               t.nodes \o u.nodes \o p.nodes, p.stats)))))))
    IN  loop(1, Built(<<>>, stats))

\* the translation branches of a procedural root
buildProceduralBranches(ctx, stats, gloss, goalRootRef, learnLang) ==
    LET refs == gloss.translations
        rootKey == glossKey(gloss)
        RECURSIVE loop(_, _)
        loop(i, acc) ==
            IF i > Len(refs) THEN acc
            ELSE
            LET tGloss == ctx.storage[refs[i]]
            IN  IF \/ normalizeLanguageCode(refs[i].lang) # ctx.target
                   \/ tGloss = Null
                   \/ TAG_PARAPHRASE \in tGloss.tags
                THEN loop(i + 1, acc)
                ELSE
                LET tKey == glossKey(tGloss)
                    branchPath == {rootKey, tKey}
                IN  loop(i + 1,
                      With(computeWarnings(ctx, acc.stats, tGloss, goalRootRef,
                                           Options(ctx.native, FALSE, TRUE, TRUE)),
                      LAMBDA w :
                      With(buildTranslationNodes(ctx, w.stats, tGloss, ctx.native,
                                                 branchPath, goalRootRef, tKey, FALSE),
                      LAMBDA t :
                      With(IF normalizeLanguageCode(tGloss.language) = ctx.target
                           THEN buildUsageNodes(ctx, t.stats, tGloss, branchPath,
                                                goalRootRef)
                           ELSE Built(<<>>, t.stats),
                      LAMBDA u :
                      With(buildPartsNodes(ctx, u.stats, tGloss, branchPath, goalRootRef,
                                           learnLang, TRUE, FALSE),
                      LAMBDA p :
                        Attach(acc,
                               TreeNode(tGloss, "", FALSE, "translation", w, "", "",
                                        rootKey, "translations"),
                               t.nodes \o u.nodes \o p.nodes, p.stats))))))
    IN  loop(1, Built(<<>>, stats))

buildGoalNodes(situation, storage, nativeLanguage, targetLanguage) ==
    LET native == normalizeLanguageCode(nativeLanguage)
        target == normalizeLanguageCode(targetLanguage)
        ctx == Context(storage, native, target)
        refs == situation.children
        RECURSIVE loop(_, _)
        loop(i, acc) ==
            IF i > Len(refs) THEN acc
            ELSE
            LET gloss == storage[refs[i]]
                goalKind == IF gloss = Null THEN KindNull
                            ELSE detectGoalType(gloss, native, target)
            IN  IF goalKind = KindNull THEN loop(i + 1, acc)
                ELSE
                LET learnLang == IF goalKind = "procedural" THEN native ELSE target
                    rootKey == glossKey(gloss)
                    goalRootRef == rootKey
                    basePath == {rootKey}
                IN  loop(i + 1,
                      With(computeWarnings(ctx, acc.stats, gloss, goalRootRef,
                               Options(IF goalKind = "understanding" THEN native ELSE target,
                                       goalKind = "procedural", TRUE, FALSE)),
                      LAMBDA w :
                      With(addLearnable(ctx, w.stats, gloss, learnLang, TRUE),
                      LAMBDA s1 :
                      With(IF goalKind = "understanding"
                           THEN buildTranslationNodes(ctx, s1, gloss, native, basePath,
                                                      goalRootRef, rootKey, FALSE)
                           ELSE buildProceduralBranches(ctx, s1, gloss, goalRootRef,
                                                        learnLang),
                      LAMBDA t :
                      With(IF goalKind = "understanding" \/ Len(gloss.parts) > 0
                           THEN buildPartsNodes(ctx, t.stats, gloss, basePath, goalRootRef,
                                                learnLang, TRUE, FALSE)
                           ELSE Built(<<>>, t.stats),
                      LAMBDA p :
                        Attach(acc,
                               TreeNode(gloss,
                                        IF goalKind = "procedural" THEN "PROC " ELSE "UNDR ",
                                        TRUE, "root", w,
                                        determineGoalState(gloss, storage, native, target),
                                        goalKind, glossKey(situation), "children"),
                               t.nodes \o p.nodes, p.stats))))))
    IN  loop(1, Built(<<>>, EmptyStats))

-----------------------------------------------------------------------------
(* Workspace: the gloss graph it loads and the tree it shows *)

\* loadGlossGraph(startRefs): breadth-first over parts, translations and
\* usage_examples, resolving each reference through gloss:resolveRef
RECURSIVE loadGlossGraph(_, _, _)
loadGlossGraph(st, queue, graph) ==
    IF queue = <<>> THEN graph
    ELSE LET ref == Head(queue)
             gloss == resolveReference(st, ref)
         IN  IF ref \in DOMAIN graph \/ gloss = Null
             THEN loadGlossGraph(st, Tail(queue), graph)
             ELSE LET key == Ref(gloss.language, gloss.slug)
                      g2 == [k \in DOMAIN graph \cup {key} |->
                                IF k = key THEN gloss ELSE graph[k]]
                      all == gloss.parts \o gloss.translations \o gloss.usage_examples
                      neighbors == SelectSeq(all, LAMBDA n : n \notin DOMAIN g2)
                  IN  loadGlossGraph(st, Tail(queue) \o neighbors, g2)

\* the storage refreshTree builds over the graph: graph.get(ref) || null
GraphStorage(graph) ==
    [ref \in AllRefs |-> IF ref \in DOMAIN graph THEN graph[ref] ELSE Null]

\* refreshTree(currentSituation): situation.value stays as it was loaded,
\* treeNodes and treeStats are rebuilt over a freshly loaded graph
refreshTree(st, currentSituation, nativeLang, targetLang) ==
    With(buildGoalNodes(currentSituation,
                        GraphStorage(loadGlossGraph(st, currentSituation.children, <<>>)),
                        nativeLang, targetLang),
         LAMBDA built :
           [situation |-> currentSituation, native |-> nativeLang, target |-> targetLang,
            nodes |-> built.nodes, stats |-> built.stats])

\* goalStats for the goal tab goalRootRef: the lists handed to AiBatchToolPanel
goalStats(stats, goalRootRef) ==
    IF goalRootRef \in DOMAIN stats.goal_missing_by_root
    THEN [missingNative |-> stats.goal_missing_by_root[goalRootRef].native_missing,
          missingTarget |-> stats.goal_missing_by_root[goalRootRef].target_missing,
          missingParts |-> stats.goal_missing_by_root[goalRootRef].parts_missing,
          missingUsage |-> stats.goal_missing_by_root[goalRootRef].usage_missing]
    ELSE [missingNative |-> {}, missingTarget |-> {},
          missingParts |-> {}, missingUsage |-> {}]

-----------------------------------------------------------------------------
(* Batch exporter *)

\* the languages configured under data/language
ExportLanguages == {"eng", "deu"}

\* gatherRefs(root).refs, as a set
RECURSIVE gatherRefs(_)
gatherRefs(node) ==
    {node.gloss} \cup UNION {gatherRefs(node.children[i]) : i \in 1..Len(node.children)}

\* storage.findGlossesByTag('eng:situation')
findGlossesByTag(st, tag) ==
    {loadGloss(st, k.lang, k.slug) : k \in {k \in DOMAIN st : tag \in st[k].tags}}

SeqFilter(seq, Keep(_)) ==
    LET RECURSIVE go(_)
        go(i) == IF i > Len(seq) THEN <<>>
                 ELSE (IF Keep(seq[i]) THEN <<seq[i]>> ELSE <<>>) \o go(i + 1)
    IN  go(1)

SeqMap(seq, F(_)) == [i \in 1..Len(seq) |-> F(seq[i])]

\* the export starting from the situation's children as well
situationRefsWithChildren(situation, native, target) ==
    {Ref(situation.language, situation.slug)}
        \cup {r \in Range(situation.translations) : r.lang \in {native, target}}
        \cup Range(situation.children)

\* the refs the export starts from: the situation and its translations into
\* the pair's languages
situationRefs(situation, native, target) ==
    {Ref(situation.language, situation.slug)}
        \cup {r \in Range(situation.translations) : r.lang \in {native, target}}

\* an export loop that skips no root
exportedRootsAnyState(nodes) == nodes

\* the roots the export loop does not skip
exportedRoots(nodes) ==
    SeqFilter(nodes, LAMBDA root : /\ root.state = "yellow"
                                   /\ root.goal_type \in {"procedural", "understanding"})

\* one (situation, native, target) round of performBatchExport:
\* the situation JSON and the refs of the glosses JSONL lines, or skipped
exportOne(st, situation, native, target) ==
    With(buildGoalNodes(situation, FileStorage(st), native, target).nodes,
    LAMBDA nodes :
    With(exportedRoots(nodes),
    LAMBDA yellow :
      LET storage == FileStorage(st)
          procedural == SeqMap(SeqFilter(yellow, LAMBDA root : root.goal_type = "procedural"),
                               LAMBDA root : root.gloss)
          understand == SeqMap(SeqFilter(yellow,
                                         LAMBDA root : root.goal_type = "understanding"),
                               LAMBDA root : root.gloss)
          allRefs == situationRefs(situation, native, target)
                       \cup UNION {gatherRefs(yellow[i]) : i \in 1..Len(yellow)}
          resolved == {r \in allRefs : storage[r] # Null}
          excluded == {r \in resolved :
                          storage[r].needsHumanCheck \/ storage[r].excludeFromLearning}
      IN  IF Len(procedural) = 0 /\ Len(understand) = 0
          THEN [skipped |-> TRUE]
          ELSE [skipped |-> FALSE,
                situation_json |-> [procedural |-> procedural, understand |-> understand],
                glosses_jsonl |-> resolved \ excluded,
                stats |-> [goal_count |-> Len(nodes), gloss_count |-> Cardinality(allRefs),
                           excluded_count |-> Cardinality(excluded)]]))

ExportKey(situation, native, target) ==
    [situation |-> situation, native |-> native, target |-> target]

\* the rounds that wrote files: those not skipped for "No learnable content"
writtenExports(all) == [k \in {k \in DOMAIN all : ~all[k].skipped} |-> all[k]]

\* the (situation, native, target) rounds of the export loop
exportRounds(situations) ==
    {k \in {ExportKey(glossKey(s), n, t) :
                s \in situations, n \in ExportLanguages, t \in ExportLanguages} :
        k.native # k.target}

\* performBatchExport: the export files the run leaves under the output root
performBatchExport(st) ==
    writtenExports([k \in exportRounds(findGlossesByTag(st, TAG_SITUATION)) |->
                      exportOne(st, loadGloss(st, k.situation.lang, k.situation.slug),
                                k.native, k.target)])

\* a file under the output root: the directories below the root, the name
OutPath(dir, name) == [dir |-> dir, name |-> name]

\* baseFilename = situation.content
baseFilename(st, k) == st[k.situation].content

\* the files one run writes and adds to exportedFiles, with what they list:
\* <native>/<target>/<situation>.json and .jsonl, <native>/<target>/situations.json,
\* <native>/available_target_languages.json, available_native_languages.json
exportedFiles(st, exports) ==
    LET keys == DOMAIN exports
        natives == {k.native : k \in keys}
        pairs == {<<k.native, k.target>> : k \in keys}
        KeyAt(p, ext) ==
            CHOOSE k \in keys : /\ p.dir = <<k.native, k.target>>
                                /\ p.name = baseFilename(st, k) \o ext
    IN  [p \in {OutPath(<<k.native, k.target>>, baseFilename(st, k) \o ".json") : k \in keys}
            |-> exports[KeyAt(p, ".json")].situation_json]
        @@ [p \in {OutPath(<<k.native, k.target>>, baseFilename(st, k) \o ".jsonl") : k \in keys}
            |-> exports[KeyAt(p, ".jsonl")].glosses_jsonl]
        @@ [p \in {OutPath(pair, "situations.json") : pair \in pairs}
            |-> {baseFilename(st, k) : k \in {k \in keys : <<k.native, k.target>> = p.dir}}]
        @@ [p \in {OutPath(<<n>>, "available_target_languages.json") : n \in natives}
            |-> {k.target : k \in {k \in keys : k.native = p.dir[1]}}]
        @@ (OutPath(<<>>, "available_native_languages.json") :> natives)

\* cleanupOldExports(outputRoot, expectedFiles): only the files in the
\* <native>/<target> directories are looked at
cleanupOldExports(out, expectedFiles) ==
    [p \in {p \in DOMAIN out : Len(p.dir) # 2 \/ p \in expectedFiles} |-> out[p]]

-----------------------------------------------------------------------------
(* The language directories a file-backed storage makes sure exist *)

\* languageDir(language): fs.mkdirSync(dir, { recursive: true })
languageDir(language) == normalizeLanguageCode(language)

\* resolveReference(ref) -> loadGloss -> pathFor -> languageDir, for each ref
refDirs(refs) == {languageDir(r.lang) : r \in refs}

MatchingRefs(gl, lang) ==
    {r \in Range(gl.translations) : normalizeLanguageCode(r.lang) = lang}

counterpartOf(lang, native, target) ==
    IF lang = target THEN native ELSE IF lang = native THEN target ELSE NoLanguage

\* resolvedTranslations: the references it resolves
dirsOfResolvedTranslations(g, lang) == refDirs(MatchingRefs(g, lang))

RECURSIVE dirsOfPartsCheck(_, _, _, _, _, _)
dirsOfPartsCheck(storage, gloss, native, target, path, skipUsageForRoot) ==
    LET ref == glossRef(gloss)
        lang == normalizeLanguageCode(gloss.language)
        counterpart == counterpartOf(lang, native, target)
        us == usageExamples(storage, gloss)
        ps == parts(storage, gloss)
    IN  IF ref \in path THEN {}
        ELSE (IF counterpart # NoLanguage
              THEN dirsOfResolvedTranslations(gloss, counterpart) ELSE {})
             \cup (IF lang = target /\ ~skipUsageForRoot
                   THEN refDirs(Range(gloss.usage_examples))
                        \cup UNION {dirsOfResolvedTranslations(us[i], native) :
                                       i \in 1..Len(us)}
                   ELSE {})
             \cup refDirs(Range(gloss.parts))
             \cup UNION {dirsOfPartsCheck(storage, ps[i], native, target,
                                          path \cup {ref}, FALSE) : i \in 1..Len(ps)}

\* evaluateGoalState: the directories its resolveReference calls go through
dirsOfEvaluateGoalState(gloss, storage, nativeLanguage, targetLanguage) ==
    LET native == normalizeLanguageCode(nativeLanguage)
        target == normalizeLanguageCode(targetLanguage)
        goalKind == detectGoalType(gloss, native, target)
        ts == resolvedTranslations(storage, gloss, target, TRUE)
    IN  IF goalKind = "understanding"
        THEN dirsOfResolvedTranslations(gloss, native)
             \cup dirsOfPartsCheck(storage, gloss, native, target, {}, TRUE)
        ELSE IF goalKind = "procedural"
        THEN dirsOfResolvedTranslations(gloss, target)
             \cup UNION {dirsOfPartsCheck(storage, ts[i], native, target, {}, FALSE) :
                            i \in 1..Len(ts)}
             \cup (IF Len(gloss.parts) > 0
                   THEN dirsOfPartsCheck(storage, gloss, native, target, {}, FALSE)
                   ELSE {})
        ELSE {}

\* translationExists resolves only under requireNonParaphrase
dirsOfWarnings(gl, checkTranslationTo, requireNonParaphrase) ==
    IF checkTranslationTo # NoLanguage /\ requireNonParaphrase
    THEN refDirs(MatchingRefs(gl, normalizeLanguageCode(checkTranslationTo)))
    ELSE {}

dirsOfTranslationNodes(gl, otherLang) == refDirs(MatchingRefs(gl, otherLang))

dirsOfUsageNode(uGloss, path, native, target) ==
    LET lang == normalizeLanguageCode(uGloss.language)
        counterpart == counterpartOf(lang, native, target)
    IN  dirsOfWarnings(uGloss, counterpart, lang = native)
        \cup (IF glossKey(uGloss) \in path \/ counterpart = NoLanguage THEN {}
              ELSE dirsOfTranslationNodes(uGloss, counterpart))

\* for (const uRef of gl.usage_examples): resolveReference, buildUsageNode
dirsOfUsageNodes(storage, gl, path, native, target) ==
    LET us == usageExamples(storage, gl)
    IN  refDirs(Range(gl.usage_examples))
        \cup UNION {dirsOfUsageNode(us[i], path, native, target) : i \in 1..Len(us)}

RECURSIVE dirsOfPartsNodes(_, _, _, _, _)
dirsOfPartsNodes(storage, gl, path, native, target) ==
    LET ps == parts(storage, gl)
        ofPart(partGloss) ==
            LET lang == normalizeLanguageCode(partGloss.language)
                counterpart == counterpartOf(lang, native, target)
                partKey == glossKey(partGloss)
                nextPath == path \cup {partKey}
            IN  dirsOfWarnings(partGloss, counterpart, lang = native)
                \cup (IF partKey \in path THEN {}
                      ELSE (IF counterpart # NoLanguage
                            THEN dirsOfTranslationNodes(partGloss, counterpart) ELSE {})
                           \cup (IF lang = target
                                 THEN dirsOfUsageNodes(storage, partGloss, nextPath,
                                                       native, target)
                                 ELSE {})
                           \cup dirsOfPartsNodes(storage, partGloss, nextPath,
                                                 native, target))
    IN  refDirs(Range(gl.parts)) \cup UNION {ofPart(ps[i]) : i \in 1..Len(ps)}

\* one child of the situation that resolved
dirsOfGoal(storage, gloss, native, target) ==
    LET goalKind == detectGoalType(gloss, native, target)
        rootKey == glossKey(gloss)
        ts == resolvedTranslations(storage, gloss, target, TRUE)
        ofTranslation(tGloss) ==
            LET branchPath == {rootKey, glossKey(tGloss)}
            IN  dirsOfTranslationNodes(tGloss, native)
                \cup (IF normalizeLanguageCode(tGloss.language) = target
                      THEN dirsOfUsageNodes(storage, tGloss, branchPath, native, target)
                      ELSE {})
                \cup dirsOfPartsNodes(storage, tGloss, branchPath, native, target)
    IN  IF goalKind = KindNull THEN {}
        ELSE dirsOfWarnings(gloss, IF goalKind = "understanding" THEN native ELSE target,
                            goalKind = "procedural")
             \cup dirsOfEvaluateGoalState(gloss, storage, native, target)
             \cup (IF goalKind = "understanding"
                   THEN dirsOfTranslationNodes(gloss, native)
                        \cup dirsOfPartsNodes(storage, gloss, {rootKey}, native, target)
                   ELSE refDirs(MatchingRefs(gloss, target))
                        \cup UNION {ofTranslation(ts[i]) : i \in 1..Len(ts)}
                        \cup (IF Len(gloss.parts) > 0
                              THEN dirsOfPartsNodes(storage, gloss, {rootKey},
                                                    native, target)
                              ELSE {}))

\* buildGoalNodes: the directories its resolveReference calls go through
dirsOfBuildGoalNodes(situation, storage, nativeLanguage, targetLanguage) ==
    LET native == normalizeLanguageCode(nativeLanguage)
        target == normalizeLanguageCode(targetLanguage)
        goals == SelectResolved(storage, situation.children)
    IN  refDirs(Range(situation.children))
        \cup UNION {dirsOfGoal(storage, goals[i], native, target) : i \in 1..Len(goals)}

\* loadGlossGraph: every reference taken from the queue goes to gloss:resolveRef
dirsOfLoadGlossGraph(st, startRefs) ==
    LET graph == loadGlossGraph(st, startRefs, <<>>)
    IN  refDirs(Range(startRefs))
        \cup UNION {refDirs(Range(graph[k].parts) \cup Range(graph[k].translations)
                              \cup Range(graph[k].usage_examples)) : k \in DOMAIN graph}

\* performBatchExport: buildGoalNodes for every round, then a lookup of every
\* collected reference in the rounds that are written
dirsOfBatchExport(st, written) ==
    UNION {dirsOfBuildGoalNodes(loadGloss(st, k.situation.lang, k.situation.slug),
                                FileStorage(st), k.native, k.target) :
              k \in exportRounds(findGlossesByTag(st, TAG_SITUATION))}
    \cup UNION {refDirs(situationRefs(loadGloss(st, k.situation.lang, k.situation.slug),
                                      k.native, k.target)) : k \in DOMAIN written}

-----------------------------------------------------------------------------
(* Stores the runs start from *)

SIT == Ref("eng", "sit")
A == Ref("eng", "a")
B == Ref("eng", "b")
X == Ref("deu", "x")
Y == Ref("deu", "y")
Z == Ref("deu", "z")
W == Ref("deu", "w")
RAW_A == Ref("ENG ", "a")

TI(l) == MarkerFor(TRANSLATION_IMPOSSIBLE_MARKER, l)
UI(l) == MarkerFor(USAGE_IMPOSSIBLE_MARKER, l)

Situation(children, translations) ==
    GlossFile({TAG_SITUATION}, <<>>, translations, <<>>, children, {})

Plain(translations) == GlossFile({}, <<>>, translations, <<>>, <<>>, {})

\* the files of a store, each with the content its file name was derived from
Contents(st) == [k \in DOMAIN st |-> [content |-> k.slug] @@ st[k]]

\* Scenario 1: understanding goal, one native translation, no parts
Scenario1 ==
    Contents(
    (SIT :> Situation(<<X>>, <<>>))
    @@ (X :> GlossFile({TAG_UNDERSTAND}, <<>>, <<A>>, <<>>, <<>>, {}))
    @@ (A :> Plain(<<X>>)))

\* Scenario 2: the same goal with one part that has a native translation
Scenario2 ==
    Contents(
    (SIT :> Situation(<<X>>, <<>>))
    @@ (X :> GlossFile({TAG_UNDERSTAND}, <<Y>>, <<A>>, <<>>, <<>>, {}))
    @@ (Y :> Plain(<<A>>))
    @@ (A :> Plain(<<X, Y>>)))

\* Scenario 3: two native translations, the part has two translated usage examples
Scenario3 ==
    Contents(
    (SIT :> Situation(<<X>>, <<>>))
    @@ (X :> GlossFile({TAG_UNDERSTAND}, <<Y>>, <<A, B>>, <<>>, <<>>, {}))
    @@ (Y :> GlossFile({}, <<>>, <<A>>, <<Z, W>>, <<>>, {SPLIT_LOG_MARKER}))
    @@ (Z :> Plain(<<A>>))
    @@ (W :> Plain(<<B>>))
    @@ (A :> Plain(<<X, Y, Z>>))
    @@ (B :> Plain(<<X, W>>)))

\* Scenario 4: procedural goal whose one target translation has nothing of its own
Scenario4 ==
    Contents(
    (SIT :> Situation(<<A>>, <<>>))
    @@ (A :> GlossFile({TAG_PROCEDURAL, TAG_PARAPHRASE}, <<>>, <<X>>, <<>>, <<>>,
                       {SPLIT_LOG_MARKER}))
    @@ (X :> Plain(<<>>)))

\* a complete procedural goal; the situation itself is translated
ProceduralReady ==
    Contents(
    (SIT :> Situation(<<A>>, <<W>>))
    @@ (A :> GlossFile({TAG_PROCEDURAL, TAG_PARAPHRASE}, <<>>, <<X>>, <<>>, <<>>,
                       {"checked: SPLIT_CONSIDERED_UNNECESSARY (ai)"}))
    @@ (X :> GlossFile({}, <<>>, <<A>>, <<Z>>, <<>>, {SPLIT_LOG_MARKER}))
    @@ (Z :> Plain(<<B>>))
    @@ (B :> Plain(<<Z>>))
    @@ (W :> Plain(<<SIT>>)))

\* the same goal, never checked for parts
ProceduralUnchecked ==
    Contents(
    (SIT :> Situation(<<A>>, <<>>))
    @@ (A :> GlossFile({TAG_PROCEDURAL, TAG_PARAPHRASE}, <<>>, <<X>>, <<>>, <<>>, {}))
    @@ (X :> GlossFile({}, <<>>, <<A>>, <<Z>>, <<>>, {SPLIT_LOG_MARKER}))
    @@ (Z :> Plain(<<B>>))
    @@ (B :> Plain(<<Z>>)))

\* a procedural goal with two target translations, a paraphrase one, and root parts
ProceduralTwo ==
    Contents(
    (SIT :> Situation(<<A>>, <<>>))
    @@ (A :> GlossFile({TAG_PROCEDURAL, TAG_PARAPHRASE}, <<B>>, <<X, Y, Z>>, <<>>, <<>>, {}))
    @@ (B :> GlossFile({}, <<>>, <<W>>, <<>>, <<>>, {SPLIT_LOG_MARKER}))
    @@ (W :> Plain(<<B>>))
    @@ (X :> GlossFile({}, <<>>, <<A>>, <<>>, <<>>, {SPLIT_LOG_MARKER, UI("deu")}))
    @@ (Y :> GlossFile({}, <<>>, <<A>>, <<>>, <<>>, {SPLIT_LOG_MARKER, UI("deu")}))
    @@ (Z :> GlossFile({TAG_PARAPHRASE}, <<>>, <<A>>, <<>>, <<>>, {})))

\* a reference cycle through parts, and a child that is no goal
Cycle ==
    Contents(
    (SIT :> Situation(<<X, B>>, <<>>))
    @@ (X :> GlossFile({TAG_UNDERSTAND}, <<Y>>, <<A>>, <<>>, <<>>, {}))
    @@ (Y :> GlossFile({}, <<X>>, <<A>>, <<>>, <<>>, {UI("deu")}))
    @@ (A :> Plain(<<X, Y>>))
    @@ (B :> Plain(<<>>)))

\* Scenario 5: W is a part of the root and, three levels deep, of its translation
Scenario5 ==
    Contents(
    (SIT :> Situation(<<A>>, <<>>))
    @@ (A :> GlossFile({TAG_PROCEDURAL, TAG_PARAPHRASE}, <<W>>, <<X>>, <<>>, <<>>, {}))
    @@ (X :> GlossFile({}, <<Y>>, <<A>>, <<>>, <<>>, {UI("deu")}))
    @@ (Y :> GlossFile({}, <<Z>>, <<B>>, <<>>, <<>>, {UI("deu")}))
    @@ (Z :> GlossFile({}, <<W>>, <<B>>, <<>>, <<>>, {UI("deu")}))
    @@ (W :> GlossFile({}, <<>>, <<B>>, <<>>, <<>>, {SPLIT_LOG_MARKER}))
    @@ (B :> Plain(<<Y, Z, W>>)))

\* a procedural and an understanding goal under one situation
TwoGoals ==
    Contents(
    (SIT :> Situation(<<A, X>>, <<>>))
    @@ (A :> GlossFile({TAG_PROCEDURAL, TAG_PARAPHRASE}, <<>>, <<X>>, <<>>, <<>>,
                       {SPLIT_LOG_MARKER}))
    @@ (X :> GlossFile({TAG_UNDERSTAND}, <<Y>>, <<A>>, <<>>, <<>>, {UI("deu")}))
    @@ (Y :> GlossFile({}, <<>>, <<>>, <<>>, <<>>, {})))

\* translations that no longer resolve
Dangling ==
    Contents(
    (SIT :> Situation(<<X, B>>, <<>>))
    @@ (X :> GlossFile({TAG_UNDERSTAND}, <<Y, W>>, <<A>>, <<>>, <<>>, {}))
    @@ (Y :> GlossFile({}, <<>>, <<A>>, <<Z>>, <<>>, {SPLIT_LOG_MARKER})))

\* gaps accepted by log markers only
MarkersOnly ==
    Contents(
    (SIT :> Situation(<<X, A>>, <<>>))
    @@ (X :> GlossFile({TAG_UNDERSTAND}, <<Y>>, <<>>, <<>>, <<>>,
                       {"checked: SPLIT_CONSIDERED_UNNECESSARY (ai)", TI("eng")}))
    @@ (Y :> GlossFile({}, <<>>, <<>>, <<>>, <<>>, {SPLIT_LOG_MARKER, TI("eng"), UI("deu")}))
    @@ (A :> GlossFile({TAG_PROCEDURAL, TAG_PARAPHRASE}, <<>>, <<>>, <<>>, <<>>,
                       {SPLIT_LOG_MARKER, TI("deu")})))

\* Scenario 6: Z is a usage example of two glosses and referenced nowhere else
Scenario6 ==
    Contents(
    (SIT :> Situation(<<X>>, <<>>))
    @@ (X :> GlossFile({TAG_UNDERSTAND}, <<Y>>, <<A>>, <<Z>>, <<>>, {}))
    @@ (Y :> GlossFile({}, <<>>, <<A>>, <<Z>>, <<>>, {SPLIT_LOG_MARKER}))
    @@ (Z :> Plain(<<>>))
    @@ (A :> Plain(<<X, Y>>)))

\* a part written in a language the store has no gloss of
ForeignPart ==
    Contents(
    (SIT :> Situation(<<X>>, <<>>))
    @@ (X :> GlossFile({TAG_UNDERSTAND}, <<Y, Ref("spa", "w")>>, <<A>>, <<>>, <<>>, {}))
    @@ (Y :> GlossFile({}, <<>>, <<A>>, <<>>, <<>>, {SPLIT_LOG_MARKER, UI("deu")}))
    @@ (A :> Plain(<<X, Y>>)))

\* usage examples of a part: one with a part of its own, one whose only
\* translation does not resolve
UsageExamples ==
    Contents(
    (SIT :> Situation(<<X>>, <<>>))
    @@ (X :> GlossFile({TAG_UNDERSTAND}, <<Y>>, <<A>>, <<>>, <<>>, {}))
    @@ (Y :> GlossFile({}, <<>>, <<A>>, <<Z, Ref("deu", "q")>>, <<>>, {SPLIT_LOG_MARKER}))
    @@ (Z :> GlossFile({}, <<W>>, <<B>>, <<>>, <<>>, {}))
    @@ (W :> Plain(<<>>))
    @@ (Ref("deu", "q") :> Plain(<<Ref("eng", "q")>>))
    @@ (A :> Plain(<<X, Y>>))
    @@ (B :> Plain(<<Z>>)))

Seeds ==
    << Scenario1, Scenario2, Scenario3, Scenario4, ProceduralReady, ProceduralUnchecked,
       ProceduralTwo, Cycle, Scenario5, TwoGoals, Dangling, MarkersOnly, Scenario6, ForeignPart,
       UsageExamples >>

-----------------------------------------------------------------------------
(* State and operations *)

NoView == Null
NoResult == Null
NoFiles == <<>>

\* the language directories under data/gloss that hold the files of a store
DirsOf(st) == {k.lang : k \in DOMAIN st}

Init ==
    /\ store \in Range(Seeds)
    /\ dirs = DirsOf(store)
    /\ files = NoFiles
    /\ view = NoView
    /\ result = NoResult
    /\ lastOp = "init"
    /\ ops = 0
    /\ proposalList = <<>>
    /\ showModal = FALSE
    /\ held = Null
    /\ output = NoFiles

RelationFields == {"parts", "translations", "usage_examples", "children"}

EditTags == {TAG_PARAPHRASE, TAG_PROCEDURAL, TAG_UNDERSTAND}

EditLogValues == {SPLIT_LOG_MARKER, TI("eng"), UI("deu")}

Toggle(set, x) == IF x \in set THEN set \ {x} ELSE set \cup {x}

DropLast(seq) == IF seq = <<>> THEN seq ELSE SubSeq(seq, 1, Len(seq) - 1)

\* what the renderer changes on a gloss it has resolved, before saving it
Edits(gloss) ==
    {[gloss EXCEPT !.tags = Toggle(@, t)] : t \in EditTags}
    \cup {[gloss EXCEPT !.needsHumanCheck = ~@], [gloss EXCEPT !.excludeFromLearning = ~@]}
    \cup {[gloss EXCEPT !.logs = @ \cup {v}] : v \in EditLogValues}
    \cup {[gloss EXCEPT ![f] = DropLast(@)] : f \in RelationFields}
    \cup {[gloss EXCEPT !.children = Append(@, RAW_A)] : t \in gloss.tags \cap {TAG_SITUATION}}

\* toDict(gloss): the file, without the slug (and, here, the path's language)
toDict(gloss) ==
    [f \in DOMAIN gloss \ {"language", "slug"} |-> gloss[f]]

\* saveGloss(gloss): writes the file at pathFor(gloss.language, gloss.slug)
saveGloss(st, gloss) ==
    LET key == Ref(normalizeLanguageCode(gloss.language), gloss.slug)
    IN  [k \in DOMAIN st \cup {key} |-> IF k = key THEN toDict(gloss) ELSE st[k]]

\* the relationship fields the relation handlers are called with
RELATIONSHIP_FIELDS ==
    {"parts", "translations", "usage_examples", "children", "has_similar_meaning"}

WITHIN_LANGUAGE_RELATIONS == {"parts", "usage_examples", "has_similar_meaning"}

SYMMETRICAL_RELATIONS == {"translations", "has_similar_meaning"}

SeqWithout(seq, x) == SelectSeq(seq, LAMBDA r : r # x)

\* an attach that leaves the target's side alone
attachRelationOneWay(st, base, field, target) ==
    IF glossKey(target) \in Range(base[field]) THEN st
    ELSE saveGloss(st, [base EXCEPT ![field] = Append(@, glossKey(target))])

\* attachRelation(base, field, target): base and target as the handler loaded them
attachRelation(st, base, field, target) ==
    LET ref == glossKey(target)
        st1 == IF ref \in Range(base[field]) THEN st
               ELSE saveGloss(st, [base EXCEPT ![field] = Append(@, ref)])
        backRef == glossKey(base)
    IN  IF field \in SYMMETRICAL_RELATIONS /\ backRef \notin Range(target[field])
        THEN saveGloss(st1, [target EXCEPT ![field] = Append(@, backRef)])
        ELSE st1

\* detachRelation(base, field, targetRef): the target is resolved after the
\* base has been saved
detachRelation(st, base, field, targetRef) ==
    LET st1 == saveGloss(st, [base EXCEPT ![field] = SeqWithout(@, targetRef)])
        target == resolveReference(st1, targetRef)
    IN  IF field \in SYMMETRICAL_RELATIONS /\ target # Null
        THEN saveGloss(st1, [target EXCEPT ![field] = SeqWithout(@, glossKey(base))])
        ELSE st1

RelationRefs == {A, B, X, Y, Z}

\* gloss:attachRelation
AttachRelation ==
    /\ ops < MaxOps
    /\ \E baseRef \in RelationRefs, field \in RELATIONSHIP_FIELDS, targetRef \in RelationRefs :
         LET base == resolveReference(store, baseRef)
             target == resolveReference(store, targetRef)
         IN  /\ base # Null /\ target # Null
             /\ ~(field \in WITHIN_LANGUAGE_RELATIONS /\ target.language # base.language)
             /\ store' = attachRelation(store, base, field, target)
             /\ dirs' = dirs \cup refDirs({baseRef, targetRef})
             /\ result' = [base |-> baseRef, field |-> field, target |-> targetRef]
    /\ ops' = ops + 1
    /\ lastOp' = "attach"
    /\ UNCHANGED output
    /\ UNCHANGED held
    /\ UNCHANGED <<proposalList, showModal>>
    /\ UNCHANGED <<files, view>>

\* gloss:detachRelation
DetachRelation ==
    /\ ops < MaxOps
    /\ \E baseRef \in RelationRefs, field \in RELATIONSHIP_FIELDS, targetRef \in RelationRefs :
         LET base == resolveReference(store, baseRef)
         IN  /\ base # Null
             /\ store' = detachRelation(store, base, field, targetRef)
             /\ dirs' = dirs \cup refDirs({baseRef})
                           \cup (IF field \in SYMMETRICAL_RELATIONS
                                 THEN refDirs({targetRef}) ELSE {})
             /\ result' = [base |-> baseRef, field |-> field, target |-> targetRef]
    /\ ops' = ops + 1
    /\ lastOp' = "detach"
    /\ UNCHANGED output
    /\ UNCHANGED held
    /\ UNCHANGED <<proposalList, showModal>>
    /\ UNCHANGED <<files, view>>

\* deleteGloss(language, slug): unlinks the file if it exists
deleteGloss(st, language, slug) ==
    [k \in DOMAIN st \ {Ref(normalizeLanguageCode(language), slug)} |-> st[k]]

RECURSIVE SumOver(_, _)
SumOver(f, keys) ==
    IF keys = {} THEN 0
    ELSE LET k == CHOOSE k \in keys : TRUE IN f[k] + SumOver(f, keys \ {k})

\* a delete that scans nothing
deleteGlossOnly(st, language, slug) ==
    [store |-> deleteGloss(st, language, slug), success |-> TRUE, refsRemoved |-> 0]

\* deleteGlossWithCleanup(language, slug): delete the file, scan every
\* relationship field of every gloss, save the changed ones, return the count
deleteGlossWithCleanup(st, language, slug) ==
    LET ref == Ref(normalizeLanguageCode(language), slug)
        st1 == deleteGloss(st, language, slug)
        cleaned == [k \in DOMAIN st1 |->
                      [f \in DOMAIN st1[k] |->
                          IF f \in RELATIONSHIP_FIELDS THEN SeqWithout(st1[k][f], ref)
                          ELSE st1[k][f]]]
        removed == [kf \in (DOMAIN st1) \X RELATIONSHIP_FIELDS |->
                      Len(st1[kf[1]][kf[2]]) - Len(cleaned[kf[1]][kf[2]])]
    IN  [store |-> cleaned, success |-> TRUE,
         refsRemoved |-> SumOver(removed, DOMAIN removed)]

\* gloss:deleteWithCleanup
DeleteWithCleanup ==
    /\ ops < MaxOps
    /\ \E k \in DOMAIN store :
         LET outcome == deleteGlossWithCleanup(store, k.lang, k.slug)
         IN  /\ store' = outcome.store
             /\ dirs' = dirs \cup refDirs({k})
             /\ result' = [gloss |-> k, success |-> outcome.success,
                           refsRemoved |-> outcome.refsRemoved]
    /\ ops' = ops + 1
    /\ lastOp' = "delete"
    /\ UNCHANGED output
    /\ UNCHANGED held
    /\ UNCHANGED <<proposalList, showModal>>
    /\ UNCHANGED <<files, view>>

\* the characters deriveSlug removes: / \ ? * : | " < >
IllegalChars == {"/", "\\", "?", "*", ":", "|", "\"", "<", ">"}

\* the ASCII control characters among the contents of the model
ControlChars == {"\t", "\n", "\r", "\f"}

\* [\s.]: whitespace and dots
WhitespaceOrDot == {" ", "."}

SLUG_MAX == 120

RECURSIVE removeChars(_, _)
removeChars(text, chars) ==
    IF text = "" THEN ""
    ELSE (IF SubSeq(text, 1, 1) \in chars THEN "" ELSE SubSeq(text, 1, 1))
             \o removeChars(SubSeq(text, 2, Len(text)), chars)

\* replace(/[\s.]+$/g, '')
RECURSIVE stripTrailing(_)
stripTrailing(text) ==
    IF text # "" /\ SubSeq(text, Len(text), Len(text)) \in WhitespaceOrDot
    THEN stripTrailing(SubSeq(text, 1, Len(text) - 1))
    ELSE text

\* the error deriveSlug throws: no slug
SlugError == ""

\* a slug derivation that keeps trailing whitespace and dots
deriveSlugUnstripped(text) == removeChars(removeChars(text, IllegalChars), ControlChars)

\* deriveSlug(text): the slug, or SlugError where it throws
deriveSlug(text) ==
    IF text = "" THEN SlugError
    ELSE LET cleaned == removeChars(removeChars(text, IllegalChars), ControlChars)
             slug == stripTrailing(cleaned)
         IN  IF Len(slug) > SLUG_MAX THEN stripTrailing(SubSeq(slug, 1, SLUG_MAX))
             ELSE slug

\* what a storage call leaves: the files, whether it threw, the gloss returned
Outcome(st, error, gloss) == [store |-> st, error |-> error, gloss |-> gloss]

\* findGlossByContent(language, content)
findGlossByContent(st, language, content) ==
    IF deriveSlug(content) = SlugError THEN Null
    ELSE loadGloss(st, language, deriveSlug(content))

\* createGloss(gloss)
createGloss(st, gloss) ==
    LET slug == deriveSlug(gloss.content)
        language == normalizeLanguageCode(gloss.language)
        created == [language |-> language, slug |-> slug]
                       @@ [f \in DOMAIN gloss \ {"language", "slug"} |-> gloss[f]]
    IN  IF slug = SlugError THEN Outcome(st, TRUE, Null)
        ELSE IF Ref(language, slug) \in DOMAIN st
        THEN Outcome(st, FALSE, loadGloss(st, language, slug))
        ELSE Outcome(saveGloss(st, created), FALSE, created)

\* ensureGloss(language, content)
ensureGloss(st, language, content) ==
    LET existing == findGlossByContent(st, language, content)
    IN  IF existing # Null THEN Outcome(st, FALSE, existing)
        ELSE createGloss(st, [language |-> normalizeLanguageCode(language),
                              content |-> content] @@ EmptyGloss)

\* the rewrite of gloss:updateContent: every reference to oldRef in every
\* relationship field of every gloss becomes newRef
rewriteReferences(st, oldRef, newRef) ==
    [k \in DOMAIN st |->
        [f \in DOMAIN st[k] |->
            IF f \in RELATIONSHIP_FIELDS
            THEN [i \in 1..Len(st[k][f]) |->
                     IF st[k][f][i] = oldRef THEN newRef ELSE st[k][f][i]]
            ELSE st[k][f]]]

\* gloss:updateContent(ref, newContent)
updateContent(st, ref, newContent) ==
    LET gloss == resolveReference(st, ref)
        updated == createGloss(st, [gloss EXCEPT !.content = newContent])
        oldSlug == ref.slug
        newSlug == updated.gloss.slug
        language == updated.gloss.language
    IN  IF gloss = Null THEN Outcome(st, TRUE, Null)
        ELSE IF updated.error THEN updated
        ELSE IF oldSlug = newSlug THEN Outcome(updated.store, FALSE, updated.gloss)
        ELSE Outcome(deleteGloss(rewriteReferences(updated.store, Ref(language, oldSlug),
                                                   Ref(language, newSlug)),
                                 language, oldSlug),
                     FALSE, updated.gloss)

CreateLanguages == {"eng", "deu", "ENG "}

CreateContents == {"", "?", " .", "a", "a?", "b", "q", "q."}

\* gloss:ensure
EnsureGloss ==
    /\ ops < MaxOps
    /\ \E language \in CreateLanguages, content \in CreateContents :
         LET outcome == ensureGloss(store, language, content)
         IN  /\ store' = outcome.store
             /\ dirs' = dirs \cup (IF deriveSlug(content) = SlugError THEN {}
                                   ELSE {languageDir(language)})
             /\ result' = [language |-> language, content |-> content,
                           error |-> outcome.error, gloss |-> outcome.gloss]
    /\ ops' = ops + 1
    /\ lastOp' = "ensure"
    /\ UNCHANGED output
    /\ UNCHANGED held
    /\ UNCHANGED <<proposalList, showModal>>
    /\ UNCHANGED <<files, view>>

\* gloss:updateContent
UpdateContent ==
    /\ ops < MaxOps
    /\ \E ref \in RelationRefs, newContent \in CreateContents :
         LET outcome == updateContent(store, ref, newContent)
         IN  /\ store' = outcome.store
             /\ dirs' = dirs \cup refDirs({ref})
             /\ result' = [ref |-> ref, content |-> newContent,
                           error |-> outcome.error, gloss |-> outcome.gloss]
    /\ ops' = ops + 1
    /\ lastOp' = "updateContent"
    /\ UNCHANGED output
    /\ UNCHANGED held
    /\ UNCHANGED <<proposalList, showModal>>
    /\ UNCHANGED <<files, view>>

\* the order in which the directories and files of the store are read
KeyOrder ==
    << Ref("deu", "a"), Ref("deu", "b"), Ref("deu", "q"), Ref("deu", "sit"),
       Ref("deu", "w"), Ref("deu", "x"), Ref("deu", "y"), Ref("deu", "z"),
       Ref("eng", "a"), Ref("eng", "b"), Ref("eng", "q"), Ref("eng", "sit"),
       Ref("eng", "w"), Ref("eng", "x"), Ref("eng", "y"), Ref("eng", "z"),
       Ref("spa", "a"), Ref("spa", "b"), Ref("spa", "q"), Ref("spa", "sit"),
       Ref("spa", "w"), Ref("spa", "x"), Ref("spa", "y"), Ref("spa", "z") >>

\* iterateAllGlosses(): the glosses of the store, one at a time
iterateAllGlosses(st) ==
    LET keys == SelectSeq(KeyOrder, LAMBDA k : k \in DOMAIN st)
    IN  [i \in 1..Len(keys) |-> loadGloss(st, keys[i].lang, keys[i].slug)]

\* findGlossesByTag(tagRef), as the generator yields them
iterateGlossesByTag(st, tagRef) ==
    SelectSeq(iterateAllGlosses(st), LAMBDA g : tagRef \in g.tags)

\* searchGlossesByContent(language, substring), as the generator yields them
searchGlossesByContent(st, language, substring) ==
    SelectSeq(iterateAllGlosses(st),
              LAMBDA g : /\ g.language = normalizeLanguageCode(language)
                         /\ includes(g.content, substring))

FIND_BY_TAG_LIMIT == 100
SEARCH_BY_CONTENT_LIMIT == 50
SITUATION_LIST_LIMIT == 100

\* for (const gloss of generator) { if (skip) continue; results.push(gloss);
\* if (results.length >= limit) break }: the results and how many glosses
\* were taken from the generator
RECURSIVE collect(_, _, _, _, _)
collect(yielded, Keep(_), limit, i, results) ==
    IF i > Len(yielded) THEN [results |-> results, pulled |-> Len(yielded)]
    ELSE IF ~Keep(yielded[i]) THEN collect(yielded, Keep, limit, i + 1, results)
    ELSE IF Len(results) + 1 >= limit
         THEN [results |-> Append(results, yielded[i]), pulled |-> i]
         ELSE collect(yielded, Keep, limit, i + 1, Append(results, yielded[i]))

\* String.prototype.toLowerCase on the queries of the model
toLowerCase(text) ==
    CASE text = "SIT" -> "sit"
      [] text = "S" -> "s"
      [] OTHER -> text

NoQuery == "undefined"

\* the limits a caller passes
Limits == {-1, 0, 1, 2, 3}

LookupTags == {TAG_SITUATION, TAG_PARAPHRASE, TAG_UNDERSTAND}

Substrings == {"", "a", "s"}

Queries == {NoQuery, "", "S", "SIT", "x"}

LookupResult(name, cap, yielded, collected) ==
    [lookup |-> name, cap |-> cap, yielded |-> yielded,
     results |-> collected.results, pulled |-> collected.pulled]

\* gloss:findByTag(tagRef, limit = 100)
FindByTag ==
    /\ \E tagRef \in LookupTags, passed \in BOOLEAN, limit \in Limits :
         LET cap == IF passed THEN limit ELSE FIND_BY_TAG_LIMIT
             yielded == iterateGlossesByTag(store, tagRef)
         IN  result' = LookupResult("findByTag", cap, yielded,
                                    collect(yielded, LAMBDA g : TRUE, cap, 1, <<>>))
    /\ lastOp' = "lookup"
    /\ UNCHANGED output
    /\ UNCHANGED held
    /\ UNCHANGED <<proposalList, showModal>>
    /\ UNCHANGED <<store, dirs, files, view, ops>>

\* gloss:searchByContent(language, substring, limit = 50)
SearchByContent ==
    /\ \E language \in {"eng", "deu"}, substring \in Substrings, passed \in BOOLEAN, limit \in Limits :
         LET cap == IF passed THEN limit ELSE SEARCH_BY_CONTENT_LIMIT
             yielded == searchGlossesByContent(store, language, substring)
         IN  result' = LookupResult("searchByContent", cap, yielded,
                                    collect(yielded, LAMBDA g : TRUE, cap, 1, <<>>))
    /\ lastOp' = "lookup"
    /\ UNCHANGED output
    /\ UNCHANGED held
    /\ UNCHANGED <<proposalList, showModal>>
    /\ UNCHANGED <<store, dirs, files, view, ops>>

\* situation:list(query)
SituationList ==
    /\ \E query \in Queries :
         LET lowerQuery == IF query = NoQuery \/ toLowerCase(query) = ""
                           THEN NoQuery ELSE toLowerCase(query)
             yielded == iterateGlossesByTag(store, TAG_SITUATION)
             Keep(g) == lowerQuery = NoQuery \/ includes(toLowerCase(g.content), lowerQuery)
         IN  result' = LookupResult("situationList", SITUATION_LIST_LIMIT, yielded,
                                    collect(yielded, Keep, SITUATION_LIST_LIMIT, 1, <<>>))
    /\ lastOp' = "lookup"
    /\ UNCHANGED output
    /\ UNCHANGED held
    /\ UNCHANGED <<proposalList, showModal>>
    /\ UNCHANGED <<store, dirs, files, view, ops>>

\* markGlossLog(storage, glossRef, marker): the marker is added to the logs
markGlossLog(st, ref, marker) ==
    IF resolveReference(st, ref) = Null THEN st
    ELSE [st EXCEPT ![glossKey(resolveReference(st, ref))].logs = @ \cup {marker}]

FETCH_LIMIT == 20

\* fetchGlosses(refs): the first refs that resolve
fetchGlosses(st, refs) ==
    LET first == SubSeq(refs, 1, IF Len(refs) < FETCH_LIMIT THEN Len(refs) ELSE FETCH_LIMIT)
        resolved == SelectSeq(first, LAMBDA r : resolveReference(st, r) # Null)
    IN  [i \in 1..Len(resolved) |-> resolveReference(st, resolved[i])]

\* mapSuggestions(glosses, bag): one entry for each gloss the model returned
\* something for
mapSuggestions(glosses, bag) ==
    LET kept == SelectSeq(glosses, LAMBDA g : Len(bag[g.content]) > 0)
    IN  [i \in 1..Len(kept) |->
            [glossRef |-> glossKey(kept[i]), suggestions |-> bag[kept[i].content]]]

\* gloss.markLog for each of the glosses, with its marker
RECURSIVE markAll(_, _, _)
markAll(st, glosses, markers) ==
    IF glosses = <<>> THEN st
    ELSE markAll(markGlossLog(st, glossKey(Head(glosses)), Head(markers)),
                 Tail(glosses), Tail(markers))

Generated(st, suggestions) == [store |-> st, suggestions |-> suggestions]

\* generateTranslations(apiKey, mode, refs, native, target): no judge
generateTranslations(st, refs, bag) ==
    Generated(st, mapSuggestions(fetchGlosses(st, refs), bag))

\* the judge and the completion, with the marker the flow writes for the
\* glosses the judge rejects
generateJudged(st, refs, judgeOk, bag, Marker(_)) ==
    LET glosses == fetchGlosses(st, refs)
        rejected == SelectSeq(glosses, LAMBDA g : g.content \notin judgeOk)
        filtered == SelectSeq(glosses, LAMBDA g : g.content \in judgeOk)
    IN  Generated(markAll(st, rejected, [i \in 1..Len(rejected) |-> Marker(rejected[i])]),
                  mapSuggestions(filtered, bag))

\* generateParts(apiKey, refs)
generateParts(st, refs, judgeOk, bag) ==
    generateJudged(st, refs, judgeOk, bag, LAMBDA g : SPLIT_LOG_MARKER)

\* generateUsage(apiKey, refs)
generateUsage(st, refs, judgeOk, bag) ==
    generateJudged(st, refs, judgeOk, bag,
                   LAMBDA g : MarkerFor(USAGE_IMPOSSIBLE_MARKER, g.language))

\* the proposals of the modal: every suggestion selected
Proposals(suggestions, kind, direction) ==
    [i \in 1..Len(suggestions) |->
        [glossRef |-> suggestions[i].glossRef,
         suggestions |-> suggestions[i].suggestions,
         selected |-> [j \in 1..Len(suggestions[i].suggestions) |-> TRUE],
         kind |-> kind, direction |-> direction]]

\* the props of the panel
PanelNative == "eng"
PanelTarget == "deu"

\* goalStats.missingParts and the other lists the panel is handed: glosses
\* that computeWarnings reports as missing the relation
MissingPartsRefs(st) ==
    {k \in RelationRefs \cap DOMAIN st :
        st[k].parts = <<>> /\ ~hasLog(st[k], SPLIT_LOG_MARKER)}

MissingUsageRefs(st) ==
    {k \in RelationRefs \cap DOMAIN st :
        /\ k.lang = PanelTarget
        /\ st[k].usage_examples = <<>>
        /\ ~hasLog(st[k], MarkerFor(USAGE_IMPOSSIBLE_MARKER, PanelTarget))}

MissingNativeRefs(st) ==
    {k \in RelationRefs \cap DOMAIN st :
        /\ k.lang = PanelTarget
        /\ ~translationExists(FileStorage(st), resolveReference(st, k), PanelNative, FALSE)
        /\ ~hasLog(st[k], MarkerFor(TRANSLATION_IMPOSSIBLE_MARKER, PanelNative))}

MissingTargetRefs(st) ==
    {k \in RelationRefs \cap DOMAIN st :
        /\ k.lang = PanelNative
        /\ ~translationExists(FileStorage(st), resolveReference(st, k), PanelTarget, TRUE)
        /\ ~hasLog(st[k], MarkerFor(TRANSLATION_IMPOSSIBLE_MARKER, PanelTarget))}

\* the lists of at most two references out of a set
RefLists(refs) ==
    {<<>>} \cup {<<r>> : r \in refs} \cup {p \in refs \X refs : p[1] # p[2]}

\* what the model returns for one gloss
SuggestionLists == {<<>>, <<"q">>, <<"b", "q">>}

\* the answers of the judge and of the completion, by content
Bags(refs) == [{r.slug : r \in Range(refs)} -> SuggestionLists]

Judgements(refs) == SUBSET {r.slug : r \in Range(refs)}

\* the end of runParts / runUsage / runTranslations: nothing to show, or the
\* modal with the proposals
ShowProposals(flow, refs, generated, proposals) ==
    /\ store' = generated.store
    /\ dirs' = dirs \cup refDirs(Range(refs))
    /\ result' = [flow |-> flow, processed |-> {glossKey(g) : g \in Range(fetchGlosses(store, refs))}]
    /\ IF proposals = <<>>
       THEN UNCHANGED <<proposalList, showModal>>
       ELSE proposalList' = proposals /\ showModal' = TRUE
    /\ ops' = ops + 1
    /\ lastOp' = "run"
    /\ UNCHANGED output
    /\ UNCHANGED held
    /\ UNCHANGED <<files, view>>

\* runParts()
RunParts ==
    /\ ops < MaxOps /\ ~showModal
    /\ \E refs \in RefLists(MissingPartsRefs(store)) :
         \E judgeOk \in Judgements(refs), bag \in Bags(refs) :
           LET generated == generateParts(store, refs, judgeOk, bag)
           IN  ShowProposals("parts", refs, generated,
                             Proposals(generated.suggestions, "parts", "none"))

\* runUsage()
RunUsage ==
    /\ ops < MaxOps /\ ~showModal
    /\ \E refs \in RefLists(MissingUsageRefs(store)) :
         \E judgeOk \in Judgements(refs), bag \in Bags(refs) :
           LET generated == generateUsage(store, refs, judgeOk, bag)
           IN  ShowProposals("usage", refs, generated,
                             Proposals(generated.suggestions, "usage", "none"))

\* runTranslations(): into native for the glosses missing a native
\* translation, into target for the others, paraphrases apart
RunTranslations ==
    /\ ops < MaxOps /\ ~showModal
    /\ \E nativeRefs \in RefLists(MissingNativeRefs(store)),
          targetRefs \in RefLists(MissingTargetRefs(store)) :
         \E bag \in Bags(nativeRefs \o targetRefs) :
           LET plain == SelectSeq(targetRefs, LAMBDA r : TAG_PARAPHRASE \notin store[r].tags)
               paraphrased == SelectSeq(targetRefs, LAMBDA r : TAG_PARAPHRASE \in store[r].tags)
               toNative == generateTranslations(store, nativeRefs, bag)
               toTargetPlain == generateTranslations(store, plain, bag)
               toTargetParaphrase == generateTranslations(store, paraphrased, bag)
           IN  ShowProposals("translation", nativeRefs \o targetRefs, toNative,
                             Proposals(toNative.suggestions, "translation", "toNative")
                               \o Proposals(toTargetPlain.suggestions, "translation", "toTarget")
                               \o Proposals(toTargetParaphrase.suggestions, "translation",
                                            "toTarget"))

\* a checkbox of the modal
ToggleSelected ==
    /\ showModal
    /\ \E i \in 1..Len(proposalList) :
         \E j \in 1..Len(proposalList[i].selected) :
           proposalList' = [proposalList EXCEPT ![i].selected[j] = ~@]
    /\ lastOp' = "toggle"
    /\ UNCHANGED output
    /\ UNCHANGED held
    /\ UNCHANGED <<store, dirs, files, view, result, ops, showModal>>

\* gloss.ensure(lang, text) and gloss.attachRelation(baseRef, field, ref) for
\* each text, until one of them throws
RECURSIVE attachTexts(_, _, _, _, _)
attachTexts(st, baseRef, field, lang, texts) ==
    IF texts = <<>> THEN Outcome(st, FALSE, Null)
    ELSE LET ensured == ensureGloss(st, lang, Head(texts))
             base == resolveReference(ensured.store, baseRef)
         IN  IF ensured.error \/ base = Null THEN Outcome(ensured.store, TRUE, Null)
             ELSE IF field \in WITHIN_LANGUAGE_RELATIONS
                     /\ ensured.gloss.language # base.language
             THEN Outcome(ensured.store, TRUE, Null)
             ELSE attachTexts(attachRelation(ensured.store, base, field,
                                             resolveReference(ensured.store,
                                                              glossKey(ensured.gloss))),
                              baseRef, field, lang, Tail(texts))

FieldOf(kind) ==
    CASE kind = "translation" -> "translations"
      [] kind = "parts" -> "parts"
      [] kind = "usage" -> "usage_examples"

\* the loop of applySelected over the proposals
RECURSIVE applyProposals(_, _)
applyProposals(st, items) ==
    IF items = <<>> THEN Outcome(st, FALSE, Null)
    ELSE LET item == Head(items)
             selectedTexts ==
                 LET picked == SelectSeq([j \in 1..Len(item.suggestions) |-> j],
                                         LAMBDA j : item.selected[j])
                 IN  [n \in 1..Len(picked) |-> item.suggestions[picked[n]]]
             lang == IF item.kind = "translation"
                     THEN (IF item.direction = "toNative" THEN PanelNative ELSE PanelTarget)
                     ELSE item.glossRef.lang
             applied == attachTexts(st, item.glossRef, FieldOf(item.kind), lang, selectedTexts)
         IN  IF selectedTexts = <<>> THEN applyProposals(st, Tail(items))
             ELSE IF applied.error THEN applied
             ELSE applyProposals(applied.store, Tail(items))

\* applySelected()
ApplySelected ==
    /\ showModal
    /\ LET applied == applyProposals(store, proposalList)
       IN  /\ store' = applied.store
           /\ dirs' = dirs \cup DirsOf(applied.store)
           /\ showModal' = applied.error
    /\ lastOp' = "applySelected"
    /\ UNCHANGED output
    /\ UNCHANGED held
    /\ UNCHANGED <<files, view, result, ops, proposalList>>

\* gloss:delete
DeleteGloss ==
    /\ ops < MaxOps
    /\ \E ref \in RelationRefs :
         /\ store' = deleteGloss(store, ref.lang, ref.slug)
         /\ dirs' = dirs \cup refDirs({ref})
         /\ result' = [gloss |-> ref]
    /\ ops' = ops + 1
    /\ lastOp' = "deleteOnly"
    /\ UNCHANGED output
    /\ UNCHANGED <<files, view, proposalList, showModal, held>>

\* the glosses whose exclusion the user toggles
ToggleRefs == {A, X}

\* toggleExclude, up to its first await: gloss:resolveRef answers and the
\* renderer holds the gloss
ResolveForToggle ==
    /\ held = Null /\ ops = 0
    /\ \E ref \in ToggleRefs :
         /\ resolveReference(store, ref) # Null
         /\ held' = resolveReference(store, ref)
         /\ dirs' = dirs \cup refDirs({ref})
    /\ lastOp' = "resolve"
    /\ UNCHANGED output
    /\ UNCHANGED <<store, files, view, result, ops, proposalList, showModal>>

\* toggleExclude, after the await: the flag is flipped on the held gloss and
\* gloss:save writes it
SaveToggled ==
    /\ held # Null
    /\ store' = saveGloss(store, [held EXCEPT !.excludeFromLearning = ~@])
    /\ dirs' = dirs \cup {languageDir(held.language)}
    /\ held' = Null
    /\ lastOp' = "saveToggled"
    /\ UNCHANGED output
    /\ UNCHANGED <<files, view, result, ops, proposalList, showModal>>

\* gloss:resolveRef, a change in the renderer, gloss:save; an open workspace
\* then runs handleGlossSaved: refreshTree(situation.value)
SaveEditedGloss ==
    /\ ops < MaxOps
    /\ \E k \in DOMAIN store :
         \E edited \in Edits(resolveReference(store, k)) :
            /\ toDict(edited) # store[k]
            /\ store' = saveGloss(store, edited)
            /\ dirs' = dirs \cup refDirs({k}) \cup {languageDir(edited.language)}
                          \cup (IF view = NoView THEN {}
                                ELSE dirsOfLoadGlossGraph(store', view.situation.children))
    /\ view' = IF view = NoView THEN NoView
               ELSE refreshTree(store', view.situation, view.native, view.target)
    /\ ops' = ops + 1
    /\ lastOp' = "save"
    /\ UNCHANGED output
    /\ UNCHANGED held
    /\ UNCHANGED <<proposalList, showModal>>
    /\ result' = NoResult
    /\ UNCHANGED files

WorkspacePairs == {<<"eng", "deu">>, <<"deu", "eng">>}

\* refreshWorkspace: reload the situation of the route, then refreshTree
RefreshWorkspace ==
    /\ \E pair \in WorkspacePairs :
         LET latest == loadGloss(store, SIT.lang, SIT.slug)
         IN  /\ latest # Null
             /\ view' = refreshTree(store, latest, pair[1], pair[2])
             /\ dirs' = dirs \cup {languageDir(SIT.lang)}
                           \cup dirsOfLoadGlossGraph(store, latest.children)
    /\ lastOp' = "refresh"
    /\ UNCHANGED output
    /\ UNCHANGED held
    /\ UNCHANGED <<proposalList, showModal>>
    /\ result' = NoResult
    /\ UNCHANGED <<store, files, ops>>

\* situation:export
SituationExport ==
    /\ files' = performBatchExport(store)
    /\ output' = cleanupOldExports(exportedFiles(store, files') @@ output,
                                   DOMAIN exportedFiles(store, files'))
    /\ dirs' = dirs \cup dirsOfBatchExport(store, files')
    /\ lastOp' = "export"
    /\ UNCHANGED held
    /\ UNCHANGED <<proposalList, showModal>>
    /\ result' = NoResult
    /\ UNCHANGED <<store, view, ops>>

EvalPairs == {<<"ENG ", "deu">>, <<"deu", "eng">>, <<"eng", "spa">>, <<"deu", "deu">>}

EvalRefs == {A, X, Y}

\* gloss:evaluateGoalState
EvaluateGoalState ==
    /\ \E ref \in EvalRefs \cap DOMAIN store, pair \in EvalPairs :
         LET gloss == resolveReference(store, ref)
         IN  /\ result' = [gloss |-> gloss, native |-> pair[1], target |-> pair[2]]
                         @@ evaluateGoalState(gloss, FileStorage(store), pair[1], pair[2])
             /\ dirs' = dirs \cup refDirs({ref})
                           \cup dirsOfEvaluateGoalState(gloss, FileStorage(store),
                                                        pair[1], pair[2])
    /\ lastOp' = "evaluate"
    /\ UNCHANGED output
    /\ UNCHANGED held
    /\ UNCHANGED <<proposalList, showModal>>
    /\ UNCHANGED <<store, files, view, ops>>

GoalTags == {TAG_PROCEDURAL, TAG_UNDERSTAND}

\* detectGoalType on a gloss of any language and tags, for any pair of codes
DetectGoalType ==
    /\ \E language \in RawLanguages, tags \in SUBSET GoalTags,
          native \in RawLanguages, target \in RawLanguages :
         LET gloss == [language |-> language, tags |-> tags]
         IN  result' = [gloss |-> gloss, native |-> native, target |-> target,
                        kind |-> detectGoalType(gloss, native, target)]
    /\ lastOp' = "detect"
    /\ UNCHANGED output
    /\ UNCHANGED held
    /\ UNCHANGED <<proposalList, showModal>>
    /\ UNCHANGED <<store, dirs, files, view, ops>>

BuildPairs == {<<"eng", "deu">>, <<"deu", "eng">>}

\* buildGoalNodes over the file store, for the situation and a language pair
BuildGoalNodes ==
    /\ \E pair \in BuildPairs :
         /\ SIT \in DOMAIN store
         /\ result' = [situation |-> SIT, native |-> pair[1], target |-> pair[2]]
                         @@ buildGoalNodes(loadGloss(store, SIT.lang, SIT.slug),
                                           FileStorage(store), pair[1], pair[2])
         /\ dirs' = dirs \cup {languageDir(SIT.lang)}
                       \cup dirsOfBuildGoalNodes(loadGloss(store, SIT.lang, SIT.slug),
                                                 FileStorage(store), pair[1], pair[2])
    /\ lastOp' = "build"
    /\ UNCHANGED output
    /\ UNCHANGED held
    /\ UNCHANGED <<proposalList, showModal>>
    /\ UNCHANGED <<store, files, view, ops>>

\* standardPartsCheck from a gloss of the store, with an empty path
StandardPartsCheck ==
    /\ \E ref \in EvalRefs \cap DOMAIN store, pair \in BuildPairs, skipUsageForRoot \in BOOLEAN :
         /\ result' = [gloss |-> ref, native |-> pair[1], target |-> pair[2]]
                     @@ standardPartsCheck(FileStorage(store), resolveReference(store, ref),
                                           pair[1], pair[2], {}, skipUsageForRoot)
         /\ dirs' = dirs \cup refDirs({ref})
                       \cup dirsOfPartsCheck(FileStorage(store), resolveReference(store, ref),
                                             pair[1], pair[2], {}, skipUsageForRoot)
    /\ lastOp' = "partsCheck"
    /\ UNCHANGED output
    /\ UNCHANGED held
    /\ UNCHANGED <<proposalList, showModal>>
    /\ UNCHANGED <<store, files, view, ops>>

\* the workspace: edits and refreshes
Next == SaveEditedGloss \/ RefreshWorkspace

Spec == Init /\ [][Next]_vars

\* edits and batch exports
NextExport == SaveEditedGloss \/ SituationExport

SpecExport == Init /\ [][NextExport]_vars

\* edits and goal state evaluations
NextEval == SaveEditedGloss \/ EvaluateGoalState

SpecEval == Init /\ [][NextEval]_vars

\* the goal classifier on its own
InitDetect ==
    /\ store = Scenario1
    /\ dirs = DirsOf(store)
    /\ files = NoFiles
    /\ view = NoView
    /\ result = NoResult
    /\ lastOp = "init"
    /\ ops = 0
    /\ proposalList = <<>>
    /\ showModal = FALSE
    /\ held = Null
    /\ output = NoFiles

NextDetect == DetectGoalType

SpecDetect == InitDetect /\ [][NextDetect]_vars

\* edits, tree builds and parts checks
NextBuild == SaveEditedGloss \/ BuildGoalNodes \/ StandardPartsCheck

SpecBuild == Init /\ [][NextBuild]_vars

\* the reads: tree builds and goal state evaluations over the files
NextReads == BuildGoalNodes \/ EvaluateGoalState

SpecReads == Init /\ [][NextReads]_vars

\* edits and the capped lookups of the UI
NextLookup == SaveEditedGloss \/ FindByTag \/ SearchByContent \/ SituationList

SpecLookup == Init /\ [][NextLookup]_vars

\* the AI batch tools of a goal
NextBatch == RunParts \/ RunUsage \/ RunTranslations \/ ToggleSelected \/ ApplySelected

SpecBatch == Init /\ [][NextBatch]_vars

\* every request that writes glosses, and the renderer's toggle around them
NextMutations ==
    \/ ResolveForToggle \/ SaveToggled \/ AttachRelation \/ DetachRelation
    \/ DeleteGloss \/ DeleteWithCleanup \/ UpdateContent

SpecMutations == Init /\ [][NextMutations]_vars

\* gloss creation and renaming
NextCreate == EnsureGloss \/ UpdateContent

SpecCreate == Init /\ [][NextCreate]_vars

\* the relation handlers
NextRelations == AttachRelation \/ DetachRelation \/ DeleteWithCleanup

SpecRelations == Init /\ [][NextRelations]_vars

TypeOK ==
    /\ DOMAIN store \subseteq Keys
    /\ ops \in 0..MaxOps

-----------------------------------------------------------------------------
(* What the claims speak of, stated over the store itself *)

\* a language code, trimmed and lower-cased
Canonical(code) == IF code = "ENG " THEN "eng" ELSE code

Exists(st, ref) == Ref(Canonical(ref.lang), ref.slug) \in DOMAIN st

KeyOf(ref) == Ref(Canonical(ref.lang), ref.slug)

Marked(st, k, marker) == \E val \in st[k].logs : includes(val, marker)

\* the glosses k is translated into, in language lang
TranslationsInto(st, k, lang, nonParaphrase) ==
    {KeyOf(r) : r \in {r \in Range(st[k].translations) :
                          /\ Canonical(r.lang) = lang
                          /\ Exists(st, r)
                          /\ (nonParaphrase => TAG_PARAPHRASE \notin st[KeyOf(r)].tags)}}

PartsOf(st, k) == {KeyOf(r) : r \in {r \in Range(st[k].parts) : Exists(st, r)}}

UsagesOf(st, k) == {KeyOf(r) : r \in {r \in Range(st[k].usage_examples) : Exists(st, r)}}

\* every gloss reached from k over parts, k included
RECURSIVE PartsClosureFrom(_, _)
PartsClosureFrom(st, reached) ==
    LET more == reached \cup UNION {PartsOf(st, k) : k \in reached}
    IN  IF more = reached THEN reached ELSE PartsClosureFrom(st, more)

PartsClosure(st, k) == PartsClosureFrom(st, {k})

Counterpart(k, native, target) ==
    IF k.lang = target THEN native ELSE IF k.lang = native THEN target ELSE NoLanguage

PartsChecked(st, k) == st[k].parts # <<>> \/ Marked(st, k, SPLIT_LOG_MARKER)

TranslationChecked(st, k, native, target) ==
    LET c == Counterpart(k, native, target)
    IN  c # NoLanguage =>
            \/ TranslationsInto(st, k, c, k.lang = native) # {}
            \/ Marked(st, k, TI(c))

UsageChecked(st, k, native, target) ==
    k.lang = target =>
        /\ st[k].usage_examples # <<>> \/ Marked(st, k, UI(target))
        /\ \A u \in UsagesOf(st, k) :
              TranslationsInto(st, u, native, FALSE) # {} \/ Marked(st, u, TI(native))

\* Standard Parts Recursion from root is fully satisfied
RecursionSatisfied(st, root, native, target, suppressRootUsage) ==
    \A k \in PartsClosure(st, root) :
        /\ PartsChecked(st, k)
        /\ TranslationChecked(st, k, native, target)
        /\ (k = root /\ suppressRootUsage) \/ UsageChecked(st, k, native, target)

ClaimKind(language, tags, native, target) ==
    IF Canonical(language) = Canonical(native) /\ TAG_PROCEDURAL \in tags THEN "procedural"
    ELSE IF Canonical(language) = Canonical(target) /\ TAG_UNDERSTAND \in tags
    THEN "understanding"
    ELSE KindNull

Evaluated == lastOp = "evaluate"

EvalKey == glossKey(result.gloss)
EvalNative == Canonical(result.native)
EvalTarget == Canonical(result.target)
EvalKind == ClaimKind(result.gloss.language, result.gloss.tags, result.native, result.target)

NotRed == result.state \in {"yellow", "green"}

UnderstandingYellow(st, k, native, target) ==
    /\ k.lang = target
    /\ \/ TranslationsInto(st, k, native, FALSE) # {}
       \/ Marked(st, k, TI(native))
    /\ RecursionSatisfied(st, k, native, target, TRUE)

TargetTranslations == TranslationsInto(store, EvalKey, EvalTarget, TRUE)

TranslationBranchesSatisfied ==
    \A t \in TargetTranslations : RecursionSatisfied(store, t, EvalNative, EvalTarget, FALSE)

ProceduralYellow(st, k, native, target) ==
    /\ k.lang = native
    /\ TAG_PARAPHRASE \in st[k].tags
    /\ \/ TranslationsInto(st, k, target, TRUE) # {}
       \/ Marked(st, k, TI(target))
    /\ PartsChecked(st, k)
    /\ \A t \in TranslationsInto(st, k, target, TRUE) :
          RecursionSatisfied(st, t, native, target, FALSE)
    /\ st[k].parts # <<>> => RecursionSatisfied(st, k, native, target, FALSE)

GreenCondition ==
    IF EvalKind = "understanding"
    THEN /\ Cardinality(TranslationsInto(store, EvalKey, EvalNative, FALSE)) >= 2
         /\ \A p \in PartsClosure(store, EvalKey) \ {EvalKey} :
               /\ Cardinality(UsagesOf(store, p)) >= 2
               /\ \A u \in UsagesOf(store, p) :
                     TranslationsInto(store, u, EvalNative, FALSE) # {}
    ELSE /\ EvalKind = "procedural"
         /\ Cardinality(TargetTranslations) >= 2

\* C8 as claimed: the result is green exactly when the goal meets the yellow
\* requirements and the Green condition of its kind.
C8_AsClaimed ==
    Evaluated => (result.state = "green" <=> (result.state # "red" /\ GreenCondition))

HasPrefix(line, prefix) ==
    Len(line) >= Len(prefix) /\ SubSeq(line, 1, Len(prefix)) = prefix

\* C9: every evaluation returns a state and a log; a gloss that is no goal for
\* the pair is red with the lines kind=unknown and the failed kind check, and
\* every red result logs at least one failed requirement.
C9_Total ==
    Evaluated =>
        /\ result.state \in {"red", "yellow", "green"}
        /\ result.log # <<>>
        /\ result.log[Len(result.log)] = "state=" \o result.state
        /\ result.state = "red" =>
              \E i \in 1..Len(result.log) : HasPrefix(result.log[i], "- [ ] ")
        /\ EvalKind = KindNull =>
              /\ result.state = "red"
              /\ \E i \in 1..Len(result.log) : result.log[i] = "kind=unknown"
              /\ \E i \in 1..(Len(result.log) - 1) :
                    /\ result.log[i] =
                         "- [ ] goal matches expected kind for native/target languages"
                    /\ result.log[i + 1] = "  missing: " \o EvalKey.lang \o ":" \o EvalKey.slug

\* a gloss carrying a goal tag for another pair was evaluated
C9_Witness ==
    /\ Evaluated
    /\ EvalKind = KindNull
    /\ store[EvalKey].tags \cap GoalTags # {}
    /\ result.state = "red"

Detected == lastOp = "detect"

DetectedLanguageIs(code) == Canonical(result.gloss.language) = Canonical(code)

\* C10 as claimed: 'procedural' iff the language equals native and the
\* procedural tag is present, 'understanding' iff the language equals target
\* and the understand tag is present, null otherwise.
C10_AsClaimed ==
    Detected =>
        /\ result.kind = "procedural" <=>
              (DetectedLanguageIs(result.native) /\ TAG_PROCEDURAL \in result.gloss.tags)
        /\ result.kind = "understanding" <=>
              (DetectedLanguageIs(result.target) /\ TAG_UNDERSTAND \in result.gloss.tags)
        /\ result.kind \in {"procedural", "understanding", KindNull}

\* C10 amended: 'procedural' iff the language equals native and the
\* procedural tag is present; 'understanding' iff the language equals target,
\* the understand tag is present and the procedural case does not apply; null
\* otherwise, in particular when the language matches neither code.
C10_DetectGoalType ==
    Detected =>
        LET isProcedural == /\ DetectedLanguageIs(result.native)
                            /\ TAG_PROCEDURAL \in result.gloss.tags
            isUnderstanding == /\ DetectedLanguageIs(result.target)
                               /\ TAG_UNDERSTAND \in result.gloss.tags
        IN  /\ result.kind = "procedural" <=> isProcedural
            /\ result.kind = "understanding" <=> (isUnderstanding /\ ~isProcedural)
            /\ result.kind = KindNull <=> (~isProcedural /\ ~isUnderstanding)
            /\ (~DetectedLanguageIs(result.native) /\ ~DetectedLanguageIs(result.target))
                  => result.kind = KindNull

\* an untrimmed upper-case code was matched against the target language
C10_Witness ==
    /\ Detected
    /\ result.gloss.language = "ENG "
    /\ result.target = "eng"
    /\ result.native = "deu"
    /\ result.kind = "understanding"

-----------------------------------------------------------------------------
(* The export and the workspace against the goal states *)

Exported == lastOp = "export"

\* the children of situation sit that are goals for the pair
GoalsOf(st, sit, native, target) ==
    {g \in {KeyOf(c) : c \in {c \in Range(st[sit].children) : Exists(st, c)}} :
        ClaimKind(g.lang, st[g].tags, native, target) # KindNull}

GoalIsYellow(st, g, native, target) ==
    IF ClaimKind(g.lang, st[g].tags, native, target) = "procedural"
    THEN ProceduralYellow(st, g, native, target)
    ELSE UnderstandingYellow(st, g, native, target)

RedGoals(st, sit, native, target) ==
    {g \in GoalsOf(st, sit, native, target) : ~GoalIsYellow(st, g, native, target)}

\* the glosses of the trees built for the goals in goals
TreeGlosses(st, sit, native, target, goals) ==
    LET nodes == buildGoalNodes(loadGloss(st, sit.lang, sit.slug), FileStorage(st),
                                native, target).nodes
    IN  UNION {gatherRefs(nodes[i]) : i \in {i \in 1..Len(nodes) : nodes[i].gloss \in goals}}

GoalLists(k) ==
    Range(files[k].situation_json.procedural) \cup Range(files[k].situation_json.understand)

\* the situation and its translations into the languages of the pair
SituationGlosses(st, sit, native, target) ==
    {sit} \cup {r \in Range(st[sit].translations) : Canonical(r.lang) \in {native, target}}

\* C1: in every export written, a red goal of the situation is in neither goal
\* list, and every gloss of the JSONL is the situation, one of its translations
\* or a gloss of the tree of a goal that is not red.
C1_RedGoalsNotExported ==
    Exported =>
        \A k \in DOMAIN files :
            LET red == RedGoals(store, k.situation, k.native, k.target)
                kept == GoalsOf(store, k.situation, k.native, k.target) \ red
            IN  /\ GoalLists(k) \cap red = {}
                /\ files[k].glosses_jsonl \subseteq
                      SituationGlosses(store, k.situation, k.native, k.target)
                        \cup TreeGlosses(store, k.situation, k.native, k.target, kept)

\* an export was written for a situation with a red goal next to a yellow one,
\* and a gloss of the red goal's tree is missing from the JSONL
C1_Witness ==
    /\ Exported
    /\ \E k \in DOMAIN files :
          \E g \in RedGoals(store, k.situation, k.native, k.target) :
              /\ g \notin GoalLists(k)
              /\ ~(TreeGlosses(store, k.situation, k.native, k.target, {g})
                      \subseteq files[k].glosses_jsonl)

Flagged(st, k) == st[k].needsHumanCheck \/ st[k].excludeFromLearning

\* C4 as claimed: no export written names a flagged gloss, neither as a line
\* of the JSONL nor in a goal list, while the tree still has a node for it.
C4_AsClaimed ==
    Exported =>
        \A k \in DOMAIN files :
            /\ \A r \in files[k].glosses_jsonl \cup GoalLists(k) : ~Flagged(store, KeyOf(r))
            /\ \A g \in GoalsOf(store, k.situation, k.native, k.target) :
                  Flagged(store, g) =>
                      g \in TreeGlosses(store, k.situation, k.native, k.target, {g})

\* the glosses of every tree built for the situation and pair
AllTreeGlosses(st, sit, native, target) ==
    TreeGlosses(st, sit, native, target, GoalsOf(st, sit, native, target))

\* the batch-fix lists the workspace hands to the maintenance tools for one goal
BatchFixLists(v, goalRootRef) ==
    LET lists == goalStats(v.stats, goalRootRef)
    IN  lists.missingNative \cup lists.missingTarget
            \cup lists.missingParts \cup lists.missingUsage

\* the glosses of the workspace's tree for one goal
ViewTreeGlosses(v, goalRootRef) ==
    UNION {gatherRefs(v.nodes[i]) :
              i \in {i \in 1..Len(v.nodes) : v.nodes[i].gloss = goalRootRef}}

WorkspaceOver(st, sit, native, target) ==
    refreshTree(st, loadGloss(st, sit.lang, sit.slug), native, target)

BatchFixListsInTree(st, sit, native, target) ==
    LET v == WorkspaceOver(st, sit, native, target)
    IN  \A goalRootRef \in DOMAIN v.stats.goal_missing_by_root :
            BatchFixLists(v, goalRootRef) \subseteq ViewTreeGlosses(v, goalRootRef)

ViewCurrent ==
    /\ view # NoView
    /\ view.situation = loadGloss(store, SIT.lang, SIT.slug)

\* C2 as claimed: the nodes, root states and per-goal lists the workspace
\* computes over its loaded gloss graph are those buildGoalNodes yields over
\* the file store, which the exporter derives its goal and gloss set from.
C2_AsClaimed ==
    ViewCurrent =>
        LET built == buildGoalNodes(view.situation, FileStorage(store),
                                    view.native, view.target)
        IN  /\ view.nodes = built.nodes
            /\ view.stats = built.stats

-----------------------------------------------------------------------------
(* The built tree: cycles, back-edges and warnings *)

TreeBuilt == lastOp = "build"

\* the nodes of the tree below and including node, each with the glosses of
\* its ancestors, its depth and the root it hangs under
RECURSIVE Occurrences(_, _, _, _)
Occurrences(node, ancestors, depth, root) ==
    {[node |-> node, ancestors |-> ancestors, depth |-> depth, root |-> root]}
        \cup UNION {Occurrences(node.children[i], ancestors \cup {node.gloss},
                                 depth + 1, root) :
                       i \in 1..Len(node.children)}

AllOccurrences(nodes) ==
    UNION {Occurrences(nodes[i], {}, 1, nodes[i].gloss) : i \in 1..Len(nodes)}

BackEdge(o) == o.node.gloss \in o.ancestors

\* k lies on a cycle of parts references
OnPartsCycle(st, k) == \E p \in PartsOf(st, k) : k \in PartsClosure(st, p)

\* C11: buildGoalNodes terminates on every store, cyclic ones included: the
\* tree it returns is finite, no branch is longer than the store has glosses
\* plus two, and a node whose gloss is already among its ancestors has no
\* children.
C11_CycleTerminates ==
    TreeBuilt =>
        \A o \in AllOccurrences(result.nodes) :
            /\ o.depth <= Cardinality(DOMAIN store) + 2
            /\ BackEdge(o) => o.node.children = <<>>

\* a tree was built over a store with a parts cycle, and the second occurrence
\* of a gloss of the cycle is in it
C11_Witness ==
    /\ TreeBuilt
    /\ \E o \in AllOccurrences(result.nodes) :
          /\ BackEdge(o)
          /\ o.node.role = "part"
          /\ OnPartsCycle(store, o.node.gloss)
          /\ o.node.children = <<>>

WarningKinds == {"native", "target", "parts", "usage"}

NodeFlag(node, kind) ==
    CASE kind = "native" -> node.warn_native_missing
      [] kind = "target" -> node.warn_target_missing
      [] kind = "parts" -> node.warn_parts_missing
      [] kind = "usage" -> node.warn_usage_missing

MissingOf(sets, kind) ==
    CASE kind = "native" -> sets.native_missing
      [] kind = "target" -> sets.target_missing
      [] kind = "parts" -> sets.parts_missing
      [] kind = "usage" -> sets.usage_missing

\* the occurrences in the tree of goal g
GoalOccurrences(nodes, g) == {o \in AllOccurrences(nodes) : o.root = g}

\* C12 as claimed (tree builder): an occurrence of a gloss that is already in
\* the goal's visited path adds the gloss to no missing set, so every gloss in
\* a goal's missing set of some kind owes it to an occurrence in that goal's
\* tree that is not such a back-edge and carries the warning of that kind.
C12_AsClaimed ==
    TreeBuilt =>
        \A g \in DOMAIN result.stats.goal_missing_by_root, kind \in WarningKinds :
            \A k \in MissingOf(result.stats.goal_missing_by_root[g], kind) :
                \E o \in GoalOccurrences(result.nodes, g) :
                    /\ o.node.gloss = k
                    /\ ~BackEdge(o)
                    /\ NodeFlag(o.node, kind)

\* the part nodes d levels of parts below node
RECURSIVE PartsAt(_, _)
PartsAt(node, d) ==
    IF d = 0 THEN {node}
    ELSE UNION {PartsAt(node.children[i], d - 1) :
                   i \in {i \in 1..Len(node.children) : node.children[i].role = "part"}}

\* C13 as claimed: when a gloss is a part of a goal root and also, three levels
\* deep, a part beneath one of the root's translations, its second visit (the
\* root's own parts are walked after the translations) is a node without
\* children, carrying no warning its first visit did not carry.
C13_AsClaimed ==
    TreeBuilt =>
        \A r \in Range(result.nodes) :
            \A second \in PartsAt(r, 1), t \in Range(r.children) :
                t.role = "translation" =>
                    \A first \in PartsAt(t, 3) :
                        first.gloss = second.gloss =>
                            /\ second.children = <<>>
                            /\ \A kind \in WarningKinds :
                                  NodeFlag(second, kind) => NodeFlag(first, kind)

\* k has translation references into lang, and none of them resolves
OnlyDanglingInto(st, k, lang) ==
    LET refs == {r \in Range(st[k].translations) : Canonical(r.lang) = lang}
    IN  refs # {} /\ \A r \in refs : ~Exists(st, r)

\* C14 as claimed: the tree has no node for a reference that does not resolve,
\* and a goal whose only translation references into the language required of
\* it are dangling (and which carries no marker for that language) is reported
\* as missing the translation by the tree builder's warning on its root node
\* and by the evaluator, whose state for it is red.
C14_AsClaimed ==
    TreeBuilt =>
        /\ \A o \in AllOccurrences(result.nodes) : Exists(store, o.node.gloss)
        /\ \A r \in Range(result.nodes) :
              LET required == IF r.goal_type = "understanding"
                              THEN Canonical(result.native) ELSE Canonical(result.target)
              IN  (/\ OnlyDanglingInto(store, r.gloss, required)
                   /\ ~Marked(store, r.gloss, TI(required)))
                  => /\ r.state = "red"
                     /\ NodeFlag(r, IF r.goal_type = "understanding"
                                    THEN "native" ELSE "target")

PartsCheckDone == lastOp = "partsCheck"

\* marker occurs in val
Contains(val, marker) ==
    \E i \in 0..Len(val) :
        /\ i + Len(marker) <= Len(val)
        /\ SubSeq(val, i + 1, i + Len(marker)) = marker

Carries(st, k, marker) == \E val \in st[k].logs : Contains(val, marker)

SplitUnnecessary == "SPLIT_CONSIDERED_UNNECESSARY"
TranslationImpossible(lang) == "TRANSLATION_CONSIDERED_IMPOSSIBLE:" \o lang
UsageImpossible(lang) == "USAGE_EXAMPLE_CONSIDERED_IMPOSSIBLE:" \o lang

\* the languages a translation of k may be required into: the counterpart of
\* its own language and, as a usage example, the native language
RequiredLanguages(k, native, target) ==
    ({Counterpart(k, native, target)} \ {NoLanguage}) \cup {native}

TranslationWaived(st, k, native, target) ==
    \A lang \in RequiredLanguages(k, native, target) :
        Carries(st, k, TranslationImpossible(lang))

\* every missing set of the stats, global and per goal, of one kind
MissingEverywhere(stats, kind) ==
    MissingOf(stats, kind)
        \cup UNION {MissingOf(stats.goal_missing_by_root[g], kind) :
                       g \in DOMAIN stats.goal_missing_by_root}

C16_AsClaimed ==
    TreeBuilt =>
        \A o \in AllOccurrences(result.nodes), kind \in WarningKinds :
            NodeFlag(o.node, kind) <=> o.node.gloss \in MissingOf(result.stats, kind)

\* the result of buildGoalNodes for the situation with goal g as its only child
BuiltAlone(st, sit, g, native, target) ==
    buildGoalNodes([loadGloss(st, sit.lang, sit.slug) EXCEPT !.children = <<g>>],
                   FileStorage(st), native, target)

MissingUnder(stats, g) ==
    IF g \in DOMAIN stats.goal_missing_by_root
    THEN stats.goal_missing_by_root[g] ELSE MissingSets

\* C17 as claimed: the missing sets recorded under a goal's key and the nodes
\* of the goal's tree, warning flags included, are the ones buildGoalNodes
\* yields when the goal is the situation's only child.
C17_AsClaimed ==
    TreeBuilt =>
        \A i \in 1..Len(result.nodes) :
            LET g == result.nodes[i].gloss
                alone == BuiltAlone(store, result.situation, g, result.native, result.target)
            IN  /\ MissingUnder(result.stats, g) = MissingUnder(alone.stats, g)
                /\ alone.nodes = <<result.nodes[i]>>

-----------------------------------------------------------------------------
(* Relations: symmetry and cleanup *)

SymmetricFields ==
    {"translations", "morphologically_related", "has_similar_meaning",
     "sounds_similar", "to_be_differentiated_from"}

Holds(st, k, field, ref) == k \in DOMAIN st /\ ref \in Range(st[k][field])

C18_WitnessDetach ==
    /\ lastOp = "detach"
    /\ result.field = "translations"
    /\ \E i \in 1..Len(Seeds) :
          /\ Holds(Seeds[i], result.target, "translations", result.base)
          /\ Holds(Seeds[i], result.base, "translations", result.target)
          /\ \A k \in DOMAIN Seeds[i] \ {result.base, result.target} :
                k \in DOMAIN store /\ store[k] = Seeds[i][k]

AllFields ==
    {"parts", "translations", "usage_examples", "children", "has_similar_meaning"}

\* the references to g held by the other glosses of the store, one per holder and field
References(st, g) ==
    {hf \in (DOMAIN st \ {g}) \X AllFields : g \in Range(st[hf[1]][hf[2]])}

\* C19: after delete-with-cleanup of a gloss G, G no longer resolves and no
\* gloss of the store holds G's reference in any relationship field; the
\* reported refsRemoved is the number of references that were held before
\* (2 when G was a usage example of exactly two other glosses and referenced
\* nowhere else).
C19_Cleanup ==
    [][lastOp' = "delete" =>
         LET G == result'.gloss
         IN  /\ resolveReference(store', G) = Null
             /\ References(store', G) = {}
             /\ \A k \in DOMAIN store', f \in AllFields : G \notin Range(store'[k][f])
             /\ result'.refsRemoved = Cardinality(References(store, G))
             /\ (\E h1, h2 \in DOMAIN store :
                    /\ h1 # h2
                    /\ References(store, G) = {<<h1, "usage_examples">>, <<h2, "usage_examples">>})
                  => result'.refsRemoved = 2]_vars

\* Scenario 6 has happened: the usage example of two glosses is gone, both
\* references with it, and two removals are reported
C19_Witness ==
    /\ lastOp = "delete"
    /\ result.gloss = Z
    /\ result.refsRemoved = 2
    /\ References(Scenario6, Z) = {<<X, "usage_examples">>, <<Y, "usage_examples">>}
    /\ DOMAIN store = DOMAIN Scenario6 \ {Z}
    /\ store[X] = [Scenario6[X] EXCEPT !.usage_examples = <<>>]
    /\ store[Y] = [Scenario6[Y] EXCEPT !.usage_examples = <<>>]
    /\ \A k \in DOMAIN store \ {X, Y} : store[k] = Scenario6[k]

-----------------------------------------------------------------------------
(* Reads and the store *)

ReadOps == {"build", "evaluate"}

\* C20 as claimed: a call of buildGoalNodes or evaluateGoalState creates,
\* changes or deletes nothing in the store, neither a gloss file nor a
\* directory, and buildGoalNodes on the unchanged store yields the same
\* nodes and stats again.
C20_AsClaimed ==
    [][lastOp' \in ReadOps =>
         /\ store' = store
         /\ dirs' = dirs
         /\ lastOp' = "build" =>
               LET again == buildGoalNodes(loadGloss(store', SIT.lang, SIT.slug),
                                           FileStorage(store'), result'.native,
                                           result'.target)
               IN  again.nodes = result'.nodes /\ again.stats = result'.stats]_vars

\* the part of C20 about gloss files alone
C20_FilesUntouched == [][lastOp' \in ReadOps => store' = store]_vars

-----------------------------------------------------------------------------
(* Scenario 2 *)

\* the evaluated gloss is an understanding goal in the target language with
\* one translation into native and exactly one part, the part has a native
\* translation, and nothing else is attached or logged
Scenario2Shape ==
    /\ Evaluated /\ EvalKind = "understanding"
    /\ EvalKey.lang = EvalTarget
    /\ Cardinality(TranslationsInto(store, EvalKey, EvalNative, FALSE)) = 1
    /\ Len(store[EvalKey].translations) = 1
    /\ Len(store[EvalKey].parts) = 1
    /\ store[EvalKey].usage_examples = <<>>
    /\ store[EvalKey].logs = {}
    /\ \E p \in PartsOf(store, EvalKey) :
          /\ p # EvalKey
          /\ TranslationsInto(store, p, EvalNative, FALSE) # {}
          /\ store[p].parts = <<>>
          /\ store[p].usage_examples = <<>>
          /\ store[p].logs = {}

-----------------------------------------------------------------------------
(* The glosses to learn *)

RootGlosses(nodes) == {nodes[i].gloss : i \in 1..Len(nodes)}

\* the glosses of the part nodes whose language is that of their goal root:
\* native under a procedural goal, target under an understanding goal
LearnableParts(nodes) ==
    {o.node.gloss : o \in {o \in AllOccurrences(nodes) :
                              /\ o.node.role = "part"
                              /\ o.node.gloss.lang = o.root.lang}}

OnlyTranslationOrUsage(nodes, g) ==
    /\ \E o \in AllOccurrences(nodes) : o.node.gloss = g
    /\ \A o \in AllOccurrences(nodes) :
          o.node.gloss = g => o.node.role \in {"translation", "usage"}

\* C22: stats.glosses_to_learn holds exactly the goal roots and the members
\* of the parts recursion whose language is the goal's learn language; a gloss
\* that occurs in the tree only as a translation or usage node is not in it.
C22_GlossesToLearn ==
    TreeBuilt =>
        /\ result.stats.glosses_to_learn
              = RootGlosses(result.nodes) \cup LearnableParts(result.nodes)
        /\ \A o \in AllOccurrences(result.nodes) :
              OnlyTranslationOrUsage(result.nodes, o.node.gloss)
                  => o.node.gloss \notin result.stats.glosses_to_learn

\* a tree with a part to learn, and a translation and a usage example that
\* are not to learn
C22_Witness ==
    /\ TreeBuilt
    /\ \E o \in AllOccurrences(result.nodes) :
          /\ o.node.role = "part"
          /\ o.node.gloss \in result.stats.glosses_to_learn
    /\ \E o \in AllOccurrences(result.nodes) :
          /\ o.node.role = "translation"
          /\ OnlyTranslationOrUsage(result.nodes, o.node.gloss)
          /\ o.node.gloss \notin result.stats.glosses_to_learn
    /\ \E o \in AllOccurrences(result.nodes) :
          /\ o.node.role = "usage"
          /\ OnlyTranslationOrUsage(result.nodes, o.node.gloss)
          /\ o.node.gloss \notin result.stats.glosses_to_learn

\* a tree with a part that is not to learn: its language is not the goal's
C22_WitnessOtherLanguage ==
    /\ TreeBuilt
    /\ \E o \in AllOccurrences(result.nodes) :
          /\ o.node.role = "part"
          /\ o.node.gloss.lang # o.root.lang
          /\ o.node.gloss \notin result.stats.glosses_to_learn

-----------------------------------------------------------------------------
(* Creation and renaming *)

Stripped == {"/", "\\", "?", "*", ":", "|", "\"", "<", ">", " ", ".", "\t", "\n", "\r", "\f"}

\* nothing of the content is left for a slug: every character is one that the
\* slug derivation drops
NoSlug(content) == \A i \in 1..Len(content) : SubSeq(content, i, i) \in Stripped

Creating == lastOp \in {"ensure", "updateContent"}

\* C23: creating a gloss (gloss:ensure, or a rename through
\* gloss:updateContent of an existing gloss) with a content that leaves no
\* slug is rejected with an error, and the rejected operation creates,
\* changes and deletes no gloss file.
C23_EmptySlugRejected ==
    [][(/\ lastOp' \in {"ensure", "updateContent"}
        /\ NoSlug(result'.content)
        /\ lastOp' = "updateContent" => result'.ref \in DOMAIN store)
       => (result'.error /\ store' = store)]_vars

\* a rename to a content of dots and illegal characters only was rejected
C23_Witness ==
    /\ lastOp = "updateContent"
    /\ result.content = " ."
    /\ result.ref \in DOMAIN store
    /\ result.error

-----------------------------------------------------------------------------
(* Capped lookups *)

LookedUp == lastOp = "lookup"

\* C24 as claimed: a lookup returns at most its cap of results, whatever cap
\* was passed, and takes nothing more from the store once the cap is reached.
C24_AsClaimed ==
    LookedUp =>
        /\ Len(result.results) <= result.cap
        /\ Len(result.results) >= result.cap =>
              \A i \in 1..result.pulled :
                  \E j \in 1..Len(result.results) :
                      j <= result.cap /\ result.results[j] = result.yielded[i]

-----------------------------------------------------------------------------
(* Usage examples *)

BuildNative == Canonical(result.native)
BuildTarget == Canonical(result.target)

UsageOccurrences(nodes) == {o \in AllOccurrences(nodes) : o.node.role = "usage"}

\* the usage example has neither a translation into native nor the marker
LacksNative(st, u, native) ==
    TranslationsInto(st, u, native, FALSE) = {} /\ ~Marked(st, u, TI(native))

RootNode(nodes, g) == CHOOSE r \in Range(nodes) : r.gloss = g

\* the glosses that are in the tree of goal g as usage examples only
UsageOnly(nodes, g) ==
    {o.node.gloss : o \in UsageOccurrences(nodes) \cap GoalOccurrences(nodes, g)}
        \ {o.node.gloss : o \in GoalOccurrences(nodes, g) \ UsageOccurrences(nodes)}

WithoutPartsOf(st, glosses) ==
    [k \in DOMAIN st |-> IF k \in glosses THEN [st[k] EXCEPT !.parts = <<>>] ELSE st[k]]

\* every usage example shown in a tree is required to have a translation into
\* native or the marker, by the tree builder (missing-native set of the goal)
\* and by the evaluator (state of the goal)
UsageTranslationRequired ==
    \A o \in UsageOccurrences(result.nodes) :
        LacksNative(store, o.node.gloss, BuildNative) =>
            /\ o.node.gloss \in MissingUnder(result.stats, o.root).native_missing
            /\ RootNode(result.nodes, o.root).state = "red"

\* the parts of a usage example are not shown and not checked
UsagePartsIgnored ==
    /\ \A o \in UsageOccurrences(result.nodes) :
          \A c \in Range(o.node.children) : c.role = "translation"
    /\ \A r \in Range(result.nodes) :
          LET only == UsageOnly(result.nodes, r.gloss)
              bare == WithoutPartsOf(store, only)
          IN  /\ r.state = determineGoalState(resolveReference(bare, r.gloss),
                                              FileStorage(bare), BuildNative, BuildTarget)
              /\ only \cap (MissingUnder(result.stats, r.gloss).parts_missing
                               \cup MissingUnder(result.stats, r.gloss).usage_missing) = {}

\* C25 as claimed: both the evaluator and the tree builder require of every
\* resolved usage example a translation into native or the marker
\* TRANSLATION_CONSIDERED_IMPOSSIBLE:<native>, and a usage example's own parts
\* are neither checked nor shown.
C25_AsClaimed == TreeBuilt => UsageTranslationRequired /\ UsagePartsIgnored

-----------------------------------------------------------------------------
(* AI batch flows *)

\* a run is over: nothing was proposed, or the proposals were applied
RunCompleted ==
    \/ lastOp = "run" /\ ~showModal
    \/ lastOp = "applySelected" /\ ~showModal

FlowMarker(flow, k) ==
    CASE flow = "parts" -> SplitUnnecessary
      [] flow = "usage" -> UsageImpossible(k.lang)
      [] flow = "translation" ->
            TranslationImpossible(IF k.lang = PanelTarget THEN PanelNative ELSE PanelTarget)

\* the gloss has something attached in the field of the flow
FlowAttached(st, flow, k) ==
    CASE flow = "parts" -> st[k].parts # <<>>
      [] flow = "usage" -> st[k].usage_examples # <<>>
      [] flow = "translation" ->
            \E r \in Range(st[k].translations) :
                r.lang = (IF k.lang = PanelTarget THEN PanelNative ELSE PanelTarget)

\* C26 as claimed: after a completed run of a batch flow, every gloss the run
\* processed has an accepted suggestion attached or carries the marker of the
\* flow.
C26_AsClaimed ==
    RunCompleted =>
        \A k \in result.processed :
            FlowAttached(store, result.flow, k) \/ Carries(store, k, FlowMarker(result.flow, k))

-----------------------------------------------------------------------------
(* Yellow goals *)

\* C27 as claimed: when buildGoalNodes marks a goal root yellow, the missing
\* sets recorded under the goal's key are all empty and no node of the goal's
\* tree carries a warning flag.
C27_AsClaimed ==
    TreeBuilt =>
        \A r \in Range(result.nodes) :
            r.state = "yellow" =>
                /\ MissingUnder(result.stats, r.gloss) = MissingSets
                /\ \A o \in GoalOccurrences(result.nodes, r.gloss), kind \in WarningKinds :
                      ~NodeFlag(o.node, kind)

-----------------------------------------------------------------------------
(* Store-wide symmetry *)

\* for every symmetric field and all glosses a and b of the store, a's field
\* contains b if and only if b's field contains a
Symmetric(st) ==
    \A a \in DOMAIN st, b \in DOMAIN st :
        \A f \in SymmetricFields \cap DOMAIN st[a] :
            b \in Range(st[a][f]) <=> a \in Range(st[b][f])

\* C28 as claimed: every step of a mutation path, the renderer's
\* resolve-change-save included, takes a symmetric store to a symmetric store.
C28_AsClaimed == [][Symmetric(store) => Symmetric(store')]_vars

-----------------------------------------------------------------------------
(* Renaming *)

\* the references of a field after the rename of oldRef to newRef
Renamed(refs, oldRef, newRef) ==
    [i \in 1..Len(refs) |-> IF refs[i] = oldRef THEN newRef ELSE refs[i]]

\* the gloss found under the reference derived from newContent has newContent
\* as its content and the relationship fields of the gloss that was edited
RenamedTo(before, after, ref, newContent) ==
    LET newRef == Ref(ref.lang, deriveSlug(newContent))
        edited == resolveReference(before, ref)
        found == resolveReference(after, newRef)
    IN  /\ found # Null
        /\ found.content = newContent
        /\ \A f \in RELATIONSHIP_FIELDS : found[f] = Renamed(edited[f], ref, newRef)

\* C29 as claimed: after a gloss:updateContent that succeeds, the reference
\* derived from the new content resolves to a gloss with the new content and
\* the edited gloss's relationship fields, whatever slug the new content has.
C29_AsClaimed ==
    [][(lastOp' = "updateContent" /\ ~result'.error)
          => RenamedTo(store, store', result'.ref, result'.content)]_vars

-----------------------------------------------------------------------------
(* Export cleanup *)

\* C30 as claimed: after a batch export, the files under the output root are
\* the files of that run, with what that run lists in them: no file of an
\* earlier run is left, and every metadata file reflects the current run.
C30_AsClaimed == Exported => output = exportedFiles(store, files)

====
